---- MODULE Spec2Model ----
(***************************************************************************)
(* Model of the PyGMT wrapper layer: the argument decorators of            *)
(* pygmt/helpers/decorators.py (use_alias, kwargs_to_strings,              *)
(* deprecate_parameter) and the module wrappers built on them (coast,      *)
(* binstats, grdclip, grdpaste, grdcut, grdfilter).                        *)
(*                                                                         *)
(* Python values are records [t, s, items]: t is the Python type, s the    *)
(* value's str() as a sequence of one-character strings, items the         *)
(* elements of a list or tuple.  A dict of keyword arguments is a function *)
(* from names to values.                                                   *)
(***************************************************************************)
EXTENDS Integers, Sequences, FiniteSets, TLC

VARIABLES pc, fn, in_args, in_kwargs, outcome, msg, ret, invoked,
          recv_args, recv_kwargs, warnings, stack, pending, kw, calls, log, result

vars == <<pc, fn, in_args, in_kwargs, outcome, msg, ret, invoked,
          recv_args, recv_kwargs, warnings, stack, pending, kw, calls, log, result>>

----------------------------------------------------------------------------
(* Bounds of the model *)

\* largest number of keyword arguments in one call of a doctest function
MaxKw == 3

----------------------------------------------------------------------------
(* Python values *)

Range(f) == {f[i] : i \in DOMAIN f}

Str(cs) == [t |-> "str", s |-> cs, items |-> <<>>]
PyInt(cs) == [t |-> "int", s |-> cs, items |-> <<>>]
PyNone == [t |-> "NoneType", s |-> <<"N", "o", "n", "e">>, items |-> <<>>]
PyTrue == [t |-> "bool", s |-> <<"T", "r", "u", "e">>, items |-> <<>>]
PyFalse == [t |-> "bool", s |-> <<"F", "a", "l", "s", "e">>, items |-> <<>>]
\* pandas.Timestamp("2015-01-01T12"): str() separates date and time by a space
Timestamp(date, time) == [t |-> "Timestamp", s |-> date \o <<" ">> \o time, items |-> <<>>]
List(xs) == [t |-> "list", s |-> <<>>, items |-> xs]
Tuple(xs) == [t |-> "tuple", s |-> <<>>, items |-> xs]
DataArray == [t |-> "DataArray", s |-> <<>>, items |-> <<>>]
NDArray == [t |-> "ndarray", s |-> <<>>, items |-> <<>>]

EmptyDict == [k \in {} |-> PyNone]
\* no array has been returned
NoResult == [t |-> "none"]
DictSet(d, k, v) == [x \in (DOMAIN d) \cup {k} |-> IF x = k THEN v ELSE d[x]]
DictPop(d, k) == [x \in (DOMAIN d) \ {k} |-> d[x]]

\* all dicts with at most n keys from names and values from vals
Dicts(names, vals, n) ==
    UNION {[ks -> vals] : ks \in {S \in SUBSET names : Cardinality(S) <= n}}

----------------------------------------------------------------------------
(* use_alias *)

Alias(short, long) == [short |-> short, long |-> <<long>>, dash |-> FALSE]
\* an alias written with a trailing dash, "a/b-": listed but not aliased
DashAlias(short, longs) == [short |-> short, long |-> longs, dash |-> TRUE]

\* the outcome of a decorator: the exception it raises, or the arguments it
\* passes to module_func and the warnings emitted so far
AliasOk(kwargs, warn) ==
    [exc |-> "none", msg |-> "", args |-> <<>>, kwargs |-> kwargs, warn |-> warn]
AliasRaise(m) ==
    [exc |-> "GMTInvalidInput", msg |-> m, args |-> <<>>, kwargs |-> EmptyDict, warn |-> <<>>]

SyntaxWarn(p) == [category |-> "SyntaxWarning", param |-> p]
FutureWarn(p) == [category |-> "FutureWarning", param |-> p]

\* AliasLoop without the test that both forms are given: the long form wins
RECURSIVE AliasLoop_NoCoexist(_, _, _, _)
AliasLoop_NoCoexist(aliases, i, kwargs, warn) ==
    IF i > Len(aliases) THEN AliasOk(kwargs, warn)
    ELSE LET a == aliases[i]
             long == a.long[1]
         IN IF long \in DOMAIN kwargs
            THEN AliasLoop_NoCoexist(aliases, i + 1,
                                     DictSet(DictPop(kwargs, long), a.short, kwargs[long]), warn)
            ELSE IF a.short \in DOMAIN kwargs
                 THEN AliasLoop_NoCoexist(aliases, i + 1, kwargs,
                                          Append(warn, SyntaxWarn(a.short)))
                 ELSE AliasLoop_NoCoexist(aliases, i + 1, kwargs, warn)

\* AliasLoop that copies the long form to the short one and leaves it in kwargs
RECURSIVE AliasLoop_KeepsLong(_, _, _, _)
AliasLoop_KeepsLong(aliases, i, kwargs, warn) ==
    IF i > Len(aliases) THEN AliasOk(kwargs, warn)
    ELSE LET a == aliases[i]
             long == a.long[1]
         IN IF long \in DOMAIN kwargs /\ a.short \in DOMAIN kwargs
            THEN AliasRaise("coexist")
            ELSE IF long \in DOMAIN kwargs
                 THEN AliasLoop_KeepsLong(aliases, i + 1,
                                          DictSet(kwargs, a.short, kwargs[long]), warn)
                 ELSE IF a.short \in DOMAIN kwargs
                      THEN AliasLoop_KeepsLong(aliases, i + 1, kwargs,
                                               Append(warn, SyntaxWarn(a.short)))
                      ELSE AliasLoop_KeepsLong(aliases, i + 1, kwargs, warn)

\* the loop over aliases.items() of new_module, from the i-th alias on
RECURSIVE AliasLoop(_, _, _, _)
AliasLoop(aliases, i, kwargs, warn) ==
    IF i > Len(aliases) THEN AliasOk(kwargs, warn)
    ELSE LET a == aliases[i]
             short == a.short
             given == short \in DOMAIN kwargs
         IN IF a.dash
            THEN IF (\E l \in Range(a.long) : l \in DOMAIN kwargs) /\ given
                 THEN AliasRaise("coexist")
                 ELSE IF given
                      THEN IF Len(a.long) > 1
                           THEN AliasRaise("not recognized")
                           ELSE AliasLoop(aliases, i + 1,
                                          DictSet(DictPop(kwargs, short), a.long[1], kwargs[short]),
                                          warn)
                      ELSE AliasLoop(aliases, i + 1, kwargs, warn)
            ELSE LET long == a.long[1]
                 IN IF long \in DOMAIN kwargs /\ given
                    THEN AliasRaise("coexist")
                    ELSE IF long \in DOMAIN kwargs
                         THEN AliasLoop(aliases, i + 1,
                                        DictSet(DictPop(kwargs, long), short, kwargs[long]),
                                        warn)
                         ELSE IF given
                              THEN AliasLoop(aliases, i + 1, kwargs, Append(warn, SyntaxWarn(short)))
                              ELSE AliasLoop(aliases, i + 1, kwargs, warn)

\* parameters removed in v0.12.0
Removed == {"U", "timestamp", "X", "xshift", "Y", "yshift"}

\* RemovedCheck that tests the removed parameters by their short forms only
RemovedCheck_ShortOnly(r) ==
    IF r.exc # "none" THEN r
    ELSE IF \E k \in {"U", "X", "Y"} : k \in DOMAIN r.kwargs
         THEN AliasRaise("no longer supported")
         ELSE r

\* the tests for U/timestamp, X/xshift and Y/yshift that follow the alias
\* loop, whose outcome is r
RemovedCheck(r) ==
    IF r.exc # "none" THEN r
    ELSE IF "U" \in DOMAIN r.kwargs \/ "timestamp" \in DOMAIN r.kwargs
         THEN AliasRaise("no longer supported")
         ELSE IF "X" \in DOMAIN r.kwargs \/ "xshift" \in DOMAIN r.kwargs
              THEN AliasRaise("no longer supported")
              ELSE IF "Y" \in DOMAIN r.kwargs \/ "yshift" \in DOMAIN r.kwargs
                   THEN AliasRaise("no longer supported")
                   ELSE r

\* new_module of use_alias up to the call of module_func
UseAlias(aliases, kwargs) == RemovedCheck(AliasLoop(aliases, 1, kwargs, <<>>))

----------------------------------------------------------------------------
(* The doctest function of use_alias *)

my_module_aliases == <<Alias("R", "region"), Alias("J", "projection")>>

my_module_names == {"R", "region", "J", "projection", "U", "xshift"}
my_module_values == {Str(<<"b", "l", "a">>), Str(<<"m", "e", "h">>)}

Idle == pc = "idle"

\* the state in which a call has ended without entering a wrapper body that
\* holds resources: exc is "returned" or the exception raised, inv whether
\* the wrapped function was invoked, with rargs and rkwargs
CallEnded(f, args, kwargs, exc, m, inv, rargs, rkwargs, warn) ==
    /\ pc' = "done"
    /\ fn' = f
    /\ in_args' = args
    /\ in_kwargs' = kwargs
    /\ outcome' = exc
    /\ msg' = m
    /\ ret' = IF exc = "returned" THEN "None" ELSE "none"
    /\ invoked' = inv
    /\ recv_args' = rargs
    /\ recv_kwargs' = rkwargs
    /\ warnings' = warn
    /\ stack' = <<>>
    /\ pending' = "none"
    /\ kw' = EmptyDict
    /\ calls' = <<>>
    /\ log' = <<>>
    /\ result' = NoResult

\* a call that raised exc inside the decorators
Ended(f, args, kwargs, exc, m, warn) ==
    CallEnded(f, args, kwargs, exc, m, FALSE, <<>>, EmptyDict, warn)

\* a call whose wrapped function received rargs and rkwargs and returned
Delivered(f, args, kwargs, rargs, rkwargs, warn) ==
    CallEnded(f, args, kwargs, "returned", "", TRUE, rargs, rkwargs, warn)

\* the end of a call of a doctest function whose decorators gave r
DoctestCall(f, args, kwargs, r) ==
    IF r.exc # "none"
    THEN Ended(f, args, kwargs, r.exc, r.msg, r.warn)
    ELSE Delivered(f, args, kwargs, r.args, r.kwargs, r.warn)

my_module ==
    /\ Idle
    /\ \E kwargs \in Dicts(my_module_names, my_module_values, MaxKw) :
         DoctestCall("my_module", <<>>, kwargs, UseAlias(my_module_aliases, kwargs))

----------------------------------------------------------------------------
(* kwargs_to_strings *)

\* a parameter of a signature; def is its default value when hasdef
Param(name) == [name |-> name, hasdef |-> FALSE, def |-> PyNone]
ParamDef(name, def) == [name |-> name, hasdef |-> TRUE, def |-> def]
\* varkw is the name of the ** parameter, "" when there is none
Signature(params, varargs, varkw) == [params |-> params, varargs |-> varargs, varkw |-> varkw]

ParamNames(sig) == {sig.params[i].name : i \in DOMAIN sig.params}

\* sig.bind(*args, **kwargs) followed by bound.apply_defaults()
Bind(sig, args, kwargs) ==
    LET n == Len(sig.params)
        names == ParamNames(sig)
        twice == \E i \in 1..n : i <= Len(args) /\ sig.params[i].name \in DOMAIN kwargs
        missing == \E i \in 1..n : /\ i > Len(args)
                                   /\ sig.params[i].name \notin DOMAIN kwargs
                                   /\ ~sig.params[i].hasdef
        extra == [k \in (DOMAIN kwargs) \ names |-> kwargs[k]]
    IN IF \/ (Len(args) > n /\ ~sig.varargs)
          \/ twice
          \/ missing
          \/ (DOMAIN extra # {} /\ sig.varkw = "")
       THEN [exc |-> "TypeError", pos |-> EmptyDict, star |-> <<>>, kw |-> EmptyDict]
       ELSE [exc |-> "none",
             pos |-> [p \in names |->
                        LET i == CHOOSE j \in 1..n : sig.params[j].name = p
                        IN IF i <= Len(args) THEN args[i]
                           ELSE IF p \in DOMAIN kwargs THEN kwargs[p]
                           ELSE sig.params[i].def],
             star |-> IF Len(args) > n THEN SubSeq(args, n + 1, Len(args)) ELSE <<>>,
             kw |-> extra]

\* bound.args: the positional-or-keyword parameters in order, then *args
BoundArgs(sig, b) == [i \in 1..Len(sig.params) |-> b.pos[sig.params[i].name]] \o b.star

\* pygmt.helpers.utils.is_nonstr_iter: an iterable that is not a string
is_nonstr_iter(value) == value.t \in {"list", "tuple", "ndarray"}

HasSpace(cs) == \E i \in DOMAIN cs : cs[i] = " "

\* the texts numpy parses as a datetime64 (dates are abbreviated to digits)
DatetimeChars == {"0", "1", "2", "3", "4", "5", "6", "7", "8", "9", "-", ":", " ", "T"}
IsDatetime(item) ==
    \/ item.t = "Timestamp"
    \/ item.t = "str" /\ \A i \in DOMAIN item.s : item.s[i] \in DatetimeChars

\* np.datetime_as_string(np.asarray(item, dtype=np.datetime64)): ISO 8601,
\* date and time separated by "T"
DatetimeAsString(item) ==
    Str([i \in DOMAIN item.s |-> IF item.s[i] = " " THEN "T" ELSE item.s[i]])

\* Join that puts the items in the opposite order
RECURSIVE Join_Reversed(_, _)
Join_Reversed(sep, items) ==
    IF items = <<>> THEN <<>>
    ELSE IF Len(items) = 1 THEN items[1].s
    ELSE Join_Reversed(sep, Tail(items)) \o <<sep>> \o items[1].s

\* separators[fmt].join(f"{item}" for item in value)
RECURSIVE Join(_, _)
Join(sep, items) ==
    IF items = <<>> THEN <<>>
    ELSE IF Len(items) = 1 THEN items[1].s
    ELSE items[1].s \o <<sep>> \o Join(sep, Tail(items))

separators == [sequence |-> "/", sequence_comma |-> ","]

\* the loop "for index, item in enumerate(value)" from index i on: the items
\* after the datetime conversion, or the exception it raises
RECURSIVE ConvertItems(_, _, _)
ConvertItems(value, items, i) ==
    IF i > Len(items) THEN [exc |-> "none", items |-> items]
    ELSE IF HasSpace(items[i].s)
         THEN IF ~IsDatetime(items[i])
              THEN [exc |-> "ValueError", items |-> items]
              ELSE IF value.t = "tuple"
                   THEN [exc |-> "TypeError", items |-> items]
                   ELSE ConvertItems(value, [items EXCEPT ![i] = DatetimeAsString(items[i])], i + 1)
         ELSE ConvertItems(value, items, i + 1)

\* Converted without the test is_nonstr_iter(value)
Converted_AnyValue(value, fmt, c) ==
    [exc |-> c.exc, value |-> Str(Join(separators[fmt], c.items))]

\* the value of a registered argument after "if fmt in separators and
\* is_nonstr_iter(value)", c being the outcome of the loop over its items
Converted(value, fmt, c) ==
    IF fmt \in DOMAIN separators /\ is_nonstr_iter(value)
    THEN [exc |-> c.exc, value |-> Str(Join(separators[fmt], c.items))]
    ELSE [exc |-> "none", value |-> value]

\* Stored that assigns to the entries of **kwargs only
Stored_KwargsOnly(b, arg, v) ==
    IF v.exc # "none" THEN [b EXCEPT !.exc = v.exc]
    ELSE IF arg \in DOMAIN b.pos THEN b
    ELSE [b EXCEPT !.kw[arg] = v.value]

\* bound.arguments after the assignment of the converted value v to arg
Stored(b, arg, v) ==
    IF v.exc # "none" THEN [b EXCEPT !.exc = v.exc]
    ELSE IF arg \in DOMAIN b.pos THEN [b EXCEPT !.pos[arg] = v.value]
    ELSE [b EXCEPT !.kw[arg] = v.value]

\* the argument arg as bound: a parameter, or an entry of **kwargs
Lookup(b, arg) == IF arg \in DOMAIN b.pos THEN b.pos[arg] ELSE b.kw[arg]

\* the loop over conversions.items() of new_module, from the i-th on
RECURSIVE ConvertLoop(_, _, _, _)
ConvertLoop(sig, conversions, i, b) ==
    IF i > Len(conversions) \/ b.exc # "none" THEN b
    ELSE IF conversions[i][1] \notin DOMAIN b.pos /\ sig.varkw # "kwargs"
         THEN [b EXCEPT !.exc = "TypeError"]
         ELSE IF conversions[i][1] \notin DOMAIN b.pos /\ conversions[i][1] \notin DOMAIN b.kw
              THEN ConvertLoop(sig, conversions, i + 1, b)
              ELSE ConvertLoop(sig, conversions, i + 1,
                     Stored(b, conversions[i][1],
                            Converted(Lookup(b, conversions[i][1]), conversions[i][2],
                                      ConvertItems(Lookup(b, conversions[i][1]),
                                                   Lookup(b, conversions[i][1]).items, 1))))

\* what new_module passes to module_func: bound.args and bound.kwargs
Passed(sig, c) ==
    IF c.exc # "none"
    THEN [exc |-> c.exc, msg |-> "", args |-> <<>>, kwargs |-> EmptyDict, warn |-> <<>>]
    ELSE [exc |-> "none", msg |-> "", args |-> BoundArgs(sig, c), kwargs |-> c.kw, warn |-> <<>>]

\* new_module of kwargs_to_strings up to the call of module_func
KwargsToStrings(sig, conversions, args, kwargs) ==
    Passed(sig, ConvertLoop(sig, conversions, 1, Bind(sig, args, kwargs)))

----------------------------------------------------------------------------
(* The doctest functions of kwargs_to_strings *)

S_20p == <<"2", "0", "p">>
S_54p == <<"-", "5", "4", "p">>
S_data1 == <<"d", "1">>
S_data2 == <<"d", "2">>
One == PyInt(<<"1">>)
Two == PyInt(<<"2">>)
\* pd.Timestamp of day 15, hour 12
Stamp == Timestamp(<<"1", "5">>, <<"1", "2">>)

\* def module(*args, **kwargs) under kwargs_to_strings(R="sequence", i="sequence_comma")
module1_sig == Signature(<<>>, TRUE, "kwargs")
module1_conversions == <<<<"R", "sequence">>, <<"i", "sequence_comma">>>>
module1_names == {"R", "i", "files"}
module1_values ==
    { List(<<One, Two>>), Tuple(<<One, Two, One>>), Str(<<"5", "/", "6">>),
      PyTrue, PyFalse, PyNone, List(<<Stamp, Two>>), Tuple(<<Stamp>>),
      List(<<Str(<<"a", " ", "b">>)>>) }
module1_args == {<<>>, <<PyInt(<<"1", "2", "3">>)>>}

\* def module(files, offset=("-54p", "-54p"), **kwargs) under
\* kwargs_to_strings(offset="sequence", R="sequence", i="sequence_comma")
module2_sig ==
    Signature(<<Param("files"), ParamDef("offset", Tuple(<<Str(S_54p), Str(S_54p)>>))>>,
              FALSE, "kwargs")
module2_conversions ==
    <<<<"offset", "sequence">>, <<"R", "sequence">>, <<"i", "sequence_comma">>>>
module2_names == {"files", "offset", "R"}
module2_values ==
    { List(<<Str(S_data1), Str(S_data2)>>), Tuple(<<Str(S_20p), Str(S_20p)>>),
      Str(<<"1", "/", "2">>) }

\* largest number of positional arguments in a call of module
MaxArgs == 2
\* largest number of keyword arguments in a call of module
MaxConvKw == 2

Seqs(vals, n) == UNION {[1..k -> vals] : k \in 0..n}

module1 ==
    /\ Idle
    /\ \E args \in module1_args, kwargs \in Dicts(module1_names, module1_values, MaxConvKw) :
         DoctestCall("module1", args, kwargs,
                     KwargsToStrings(module1_sig, module1_conversions, args, kwargs))

module2 ==
    /\ Idle
    /\ \E args \in Seqs(module2_values, MaxArgs),
          kwargs \in Dicts(module2_names, module2_values, MaxConvKw) :
         DoctestCall("module2", args, kwargs,
                     KwargsToStrings(module2_sig, module2_conversions, args, kwargs))

----------------------------------------------------------------------------
(* deprecate_parameter *)

\* DeprecateParameter that leaves the old name in kwargs
DeprecateParameter_KeepsOld(oldname, newname, r) ==
    IF oldname \in DOMAIN r.kwargs
    THEN IF newname \in DOMAIN r.kwargs
         THEN [r EXCEPT !.exc = "GMTInvalidInput", !.msg = "both", !.kwargs = EmptyDict]
         ELSE [r EXCEPT !.kwargs = DictSet(r.kwargs, newname, r.kwargs[oldname]),
                        !.warn = Append(r.warn, FutureWarn(oldname))]
    ELSE r

\* DeprecateParameter that warns before it tests for the new name
DeprecateParameter_WarnsFirst(oldname, newname, r) ==
    IF oldname \in DOMAIN r.kwargs
    THEN IF newname \in DOMAIN r.kwargs
         THEN [r EXCEPT !.exc = "GMTInvalidInput", !.msg = "both", !.kwargs = EmptyDict,
                        !.warn = Append(r.warn, FutureWarn(oldname))]
         ELSE [r EXCEPT !.kwargs = DictSet(DictPop(r.kwargs, oldname), newname, r.kwargs[oldname]),
                        !.warn = Append(r.warn, FutureWarn(oldname))]
    ELSE r

\* new_module of one deprecate_parameter(oldname, newname, ...) up to the
\* call of module_func
DeprecateParameter(oldname, newname, r) ==
    IF oldname \in DOMAIN r.kwargs
    THEN IF newname \in DOMAIN r.kwargs
         THEN [r EXCEPT !.exc = "GMTInvalidInput", !.msg = "both", !.kwargs = EmptyDict]
         ELSE [r EXCEPT !.kwargs = DictSet(DictPop(r.kwargs, oldname), newname, r.kwargs[oldname]),
                        !.warn = Append(r.warn, FutureWarn(oldname))]
    ELSE r

\* stacked decorators, the outermost first: each new_module calls the next
\* with the keyword arguments r.kwargs
RECURSIVE DeprecateStack(_, _, _)
DeprecateStack(decos, i, r) ==
    IF i > Len(decos) \/ r.exc # "none" THEN r
    ELSE DeprecateStack(decos, i + 1, DeprecateParameter(decos[i][1], decos[i][2], r))

\* the doctest function: def module(data, size=0, **kwargs), whose body
\* reads kwargs["color"]
module3_deprecations == <<<<"sizes", "size">>, <<"colors", "color">>, <<"infile", "data">>>>
module3_sig == Signature(<<Param("data"), ParamDef("size", PyInt(<<"0">>))>>, FALSE, "kwargs")
module3_names == {"data", "infile", "size", "sizes", "color", "colors"}
module3_values == {Str(<<"r", "e", "d">>), PyInt(<<"5">>)}
module3_args == {<<>>, <<Str(<<"t">>)>>}

\* the call of module by the innermost new_module, r being the outcome of
\* the decorators, and the body of module
module3_body(args, kwargs, r, b) ==
    IF b.exc # "none"
    THEN Ended("module3", args, kwargs, b.exc, "", r.warn)
    ELSE CallEnded("module3", args, kwargs,
                   IF "color" \in DOMAIN b.kw THEN "returned" ELSE "KeyError",
                   "", TRUE, args, r.kwargs, r.warn)

module3_call(args, kwargs, r) ==
    IF r.exc # "none"
    THEN Ended("module3", args, kwargs, r.exc, r.msg, r.warn)
    ELSE module3_body(args, kwargs, r, Bind(module3_sig, args, r.kwargs))

module3 ==
    /\ Idle
    /\ \E args \in module3_args, kwargs \in Dicts(module3_names, module3_values, MaxKw) :
         module3_call(args, kwargs, DeprecateStack(module3_deprecations, 1, AliasOk(kwargs, <<>>)))

----------------------------------------------------------------------------
(* Module wrappers: decorators, sessions and context managers *)

\* use_alias below the decorator whose outcome is d
ThenUseAlias(aliases, d) ==
    IF d.exc # "none" THEN d
    ELSE [UseAlias(aliases, d.kwargs) EXCEPT !.warn = d.warn \o @]

\* kwargs_to_strings, and the binding of the wrapped function's parameters,
\* below the decorator whose outcome is a
ThenKwargsToStrings(sig, conversions, args, a) ==
    IF a.exc # "none" THEN a
    ELSE [KwargsToStrings(sig, conversions, args, a.kwargs) EXCEPT !.warn = a.warn]

\* the decorators of a wrapper from the outermost inwards: deprecate_parameter,
\* use_alias, kwargs_to_strings
Decorated(deprecations, aliases, sig, conversions, args, kwargs) ==
    ThenKwargsToStrings(sig, conversions, args,
        ThenUseAlias(aliases, DeprecateStack(deprecations, 1, AliasOk(kwargs, <<>>))))

\* the wrapped function starts to run with rargs and rkwargs; pos is the
\* first position of its body that holds a resource and options the dict of
\* module options it has built by then
BeginWith(f, args, kwargs, rargs, rkwargs, warn, pos, options) ==
    /\ pc' = pos
    /\ fn' = f
    /\ in_args' = args
    /\ in_kwargs' = kwargs
    /\ outcome' = "none"
    /\ msg' = ""
    /\ ret' = "none"
    /\ invoked' = TRUE
    /\ recv_args' = rargs
    /\ recv_kwargs' = rkwargs
    /\ warnings' = warn
    /\ stack' = <<>>
    /\ pending' = "none"
    /\ kw' = options
    /\ calls' = <<>>
    /\ log' = <<>>
    /\ result' = NoResult

Begin(f, args, kwargs, rargs, rkwargs, warn, pos) ==
    BeginWith(f, args, kwargs, rargs, rkwargs, warn, pos, rkwargs)

\* pygmt.helpers.build_arg_string / build_arg_list: options whose value is
\* None or False are left out
BuildArgs(kwargs) ==
    [k \in {x \in DOMAIN kwargs : kwargs[x] \notin {PyNone, PyFalse}} |-> kwargs[k]]

\* pygmt.helpers.args_in_kwargs
args_in_kwargs(args, kwargs) == \E a \in args : a \in DOMAIN kwargs

\* pygmt.helpers.data_kind of a single data argument
data_kind(data) ==
    IF data = PyNone THEN "GMTInvalidInput"
    ELSE IF data.t = "str" THEN "file"
    ELSE IF data.t = "DataArray" THEN "grid"
    ELSE "matrix"

\* the name that "with lib.virtualfile_out(kind, fname=outgrid) as voutgrd"
\* binds: the file name when one is given, else the name of a new virtual file
VFOutName == Str(<<"@", "o", "u", "t">>)
virtualfile_out(fname) == IF fname # PyNone THEN fname ELSE VFOutName

\* the value of lib.virtualfile_to_raster(vfname=voutgrd, outgrid=outgrid)
virtualfile_to_raster(outgrid) == IF outgrid # PyNone THEN "None" ELSE "DataArray"

\* GMTTempFile(suffix=".nc").name
TmpName == Str(<<"t", "m", "p", ".", "n", "c">>)

\* what a call does with its resources, in order: a with block is entered or
\* left, the GMT module is called, a result is read from a resource
Entered(res) == [ev |-> "enter", what |-> res]
Left(res) == [ev |-> "exit", what |-> res]
Called(module) == [ev |-> "call", what |-> module]
ReadFrom(res) == [ev |-> "read", what |-> res]
\* a call into the GMT library returned a failure status
Failed(api) == [ev |-> "fail", what |-> api]

\* lib.call_module(module, args): the module is called, and GMTCLibError is
\* raised when its status is not 0
CallStatus(module, ok) ==
    IF ok THEN <<Called(module)>> ELSE <<Called(module), Failed("call_module")>>

\* "with Session() as lib"
SessionEnter ==
    /\ pc = "session"
    /\ stack' = Append(stack, "session")
    /\ log' = Append(log, Entered("session"))
    /\ pc' = IF fn \in {"binstats", "grdclip", "grdpaste"} THEN "vin"
             ELSE IF fn \in {"grdcut", "grdfilter", "grdimage"} THEN "context"
             ELSE IF fn \in {"plot", "plot3d"} THEN "plotcontext"
             ELSE "call"
    /\ UNCHANGED <<fn, in_args, in_kwargs, outcome, msg, ret, invoked, recv_args,
                   recv_kwargs, warnings, pending, kw, calls, result>>

\* Unwind that lets an exception end the call with its with blocks open
Unwind_LeavesOpen ==
    /\ pc = "unwind"
    /\ IF stack = <<>> \/ pending # "none"
       THEN /\ pc' = "done"
            /\ outcome' = IF pending = "none" THEN "returned" ELSE pending
            /\ UNCHANGED <<stack, log>>
       ELSE /\ stack' = SubSeq(stack, 1, Len(stack) - 1)
            /\ log' = Append(log, Left(stack[Len(stack)]))
            /\ UNCHANGED <<pc, outcome>>
    /\ UNCHANGED <<fn, in_args, in_kwargs, msg, ret, invoked, recv_args,
                   recv_kwargs, warnings, pending, kw, calls, result>>

\* an exception (pending) or a return leaves the with blocks that are open,
\* the innermost first; the call ends when none is left
Unwind ==
    /\ pc = "unwind"
    /\ IF stack = <<>>
       THEN /\ pc' = "done"
            /\ outcome' = IF pending = "none" THEN "returned" ELSE pending
            /\ UNCHANGED <<stack, log>>
       ELSE /\ stack' = SubSeq(stack, 1, Len(stack) - 1)
            /\ log' = Append(log, Left(stack[Len(stack)]))
            /\ UNCHANGED <<pc, outcome>>
    /\ UNCHANGED <<fn, in_args, in_kwargs, msg, ret, invoked, recv_args,
                   recv_kwargs, warnings, pending, kw, calls, result>>

\* exc is raised inside the with blocks; GMTCLibError is how the session
\* reports a failure status of the GMT library
Raise(exc) ==
    /\ pc' = "unwind"
    /\ pending' = exc
    /\ log' = IF exc = "GMTCLibError" THEN Append(log, Failed("virtualfile")) ELSE log
    /\ UNCHANGED <<fn, in_args, in_kwargs, outcome, msg, ret, invoked, recv_args,
                   recv_kwargs, warnings, stack, kw, calls, result>>

----------------------------------------------------------------------------
(* BasePlotting.coast *)

coast_aliases ==
    << Alias("R", "region"), Alias("J", "projection"), Alias("A", "area_thresh"),
       Alias("C", "lakes"), Alias("B", "frame"), Alias("D", "resolution"),
       Alias("E", "dcw"), Alias("I", "rivers"), Alias("L", "map_scale"),
       Alias("N", "borders"), Alias("W", "shorelines"), Alias("G", "land"),
       Alias("S", "water"), Alias("U", "timestamp"), Alias("V", "verbose"),
       Alias("X", "xshift"), Alias("Y", "yshift"), Alias("p", "perspective"),
       Alias("t", "transparency") >>
coast_sig == Signature(<<>>, FALSE, "kwargs")
coast_conversions == <<<<"R", "sequence">>, <<"p", "sequence">>>>
coast_required == {"C", "G", "S", "I", "N", "Q", "W"}
coast_names == {"R", "region", "land", "rivers", "Q", "U", "timestamp", "xshift"}
coast_values == {Str(<<"g">>), List(<<One, Two>>)}

\* coast_body without the test that one of the required options is given
coast_body_NoRequired(kwargs, r) ==
    IF r.exc # "none"
    THEN Ended("coast", <<>>, kwargs, r.exc, r.msg, r.warn)
    ELSE Begin("coast", <<>>, kwargs, r.args, r.kwargs, r.warn, "session")

\* the body of coast up to "with Session() as lib", r being the outcome of
\* the decorators
coast_body(kwargs, r) ==
    IF r.exc # "none"
    THEN Ended("coast", <<>>, kwargs, r.exc, r.msg, r.warn)
    ELSE IF ~args_in_kwargs(coast_required, r.kwargs)
         THEN CallEnded("coast", <<>>, kwargs, "GMTInvalidInput", "required",
                        TRUE, r.args, r.kwargs, r.warn)
         ELSE Begin("coast", <<>>, kwargs, r.args, r.kwargs, r.warn, "session")

\* the call of coast up to "with Session() as lib"
coast ==
    /\ Idle
    /\ \E kwargs \in Dicts(coast_names, coast_values, MaxKw) :
         coast_body(kwargs,
                    Decorated(<<>>, coast_aliases, coast_sig, coast_conversions, <<>>, kwargs))

\* lib.call_module("coast", build_arg_string(kwargs))
coast_call_module ==
    /\ pc = "call"
    /\ fn = "coast"
    /\ calls' = Append(calls, [module |-> fn, infile |-> <<>>, args |-> BuildArgs(kw)])
    /\ \E ok \in BOOLEAN :
         /\ pending' = IF ok THEN "none" ELSE "GMTCLibError"
         /\ log' = log \o CallStatus(fn, ok)
         /\ ret' = IF ok THEN "None" ELSE ret
    /\ pc' = "unwind"
    /\ UNCHANGED <<fn, in_args, in_kwargs, outcome, msg, invoked, recv_args,
                   recv_kwargs, warnings, stack, kw, result>>

----------------------------------------------------------------------------
(* BasePlotting.basemap *)

basemap_aliases ==
    << Alias("R", "region"), Alias("J", "projection"), Alias("Jz", "zscale"),
       Alias("JZ", "zsize"), Alias("B", "frame"), Alias("L", "map_scale"),
       Alias("Td", "rose"), Alias("Tm", "compass"), Alias("U", "timestamp"),
       Alias("V", "verbose"), Alias("X", "xshift"), Alias("Y", "yshift"),
       Alias("p", "perspective"), Alias("t", "transparency") >>
basemap_sig == Signature(<<>>, FALSE, "kwargs")
basemap_conversions == <<<<"R", "sequence">>, <<"p", "sequence">>>>
basemap_required == {"B", "L", "Td", "Tm"}
basemap_names == {"region", "J", "frame", "B", "rose", "Tm", "yshift"}
basemap_values == {Str(<<"g">>), List(<<One, Two>>)}

\* the body of basemap up to "with Session() as lib", r being the outcome of
\* the decorators
basemap_body(kwargs, r) ==
    IF r.exc # "none"
    THEN Ended("basemap", <<>>, kwargs, r.exc, r.msg, r.warn)
    ELSE IF ~args_in_kwargs(basemap_required, r.kwargs)
         THEN CallEnded("basemap", <<>>, kwargs, "GMTInvalidInput", "required",
                        TRUE, r.args, r.kwargs, r.warn)
         ELSE Begin("basemap", <<>>, kwargs, r.args, r.kwargs, r.warn, "session")

\* the call of basemap up to "with Session() as lib"
basemap ==
    /\ Idle
    /\ \E kwargs \in Dicts(basemap_names, basemap_values, MaxKw) :
         basemap_body(kwargs,
                      Decorated(<<>>, basemap_aliases, basemap_sig, basemap_conversions,
                                <<>>, kwargs))

\* lib.call_module("basemap", build_arg_string(kwargs))
basemap_call_module ==
    /\ pc = "call"
    /\ fn = "basemap"
    /\ calls' = Append(calls, [module |-> fn, infile |-> <<>>, args |-> BuildArgs(kw)])
    /\ \E ok \in BOOLEAN :
         /\ pending' = IF ok THEN "none" ELSE "GMTCLibError"
         /\ log' = log \o CallStatus(fn, ok)
         /\ ret' = IF ok THEN "None" ELSE ret
    /\ pc' = "unwind"
    /\ UNCHANGED <<fn, in_args, in_kwargs, outcome, msg, invoked, recv_args,
                   recv_kwargs, warnings, stack, kw, result>>

----------------------------------------------------------------------------
(* binstats and grdclip *)

binstats_aliases ==
    << Alias("C", "statistic"), Alias("E", "empty"), Alias("I", "spacing"),
       Alias("N", "normalize"), Alias("R", "region"), Alias("S", "search_radius"),
       Alias("V", "verbose"), Alias("W", "weight"), Alias("a", "aspatial"),
       Alias("b", "binary"), Alias("h", "header"), Alias("i", "incols"),
       Alias("r", "registration") >>
binstats_sig == Signature(<<Param("data"), ParamDef("outgrid", PyNone)>>, FALSE, "kwargs")
binstats_conversions ==
    <<<<"I", "sequence">>, <<"R", "sequence">>, <<"i", "sequence_comma">>>>

grdclip_deprecations == <<<<"new", "replace">>>>
grdclip_aliases ==
    << Alias("R", "region"), Alias("Sa", "above"), Alias("Sb", "below"),
       Alias("Si", "between"), Alias("Sr", "replace"), Alias("V", "verbose") >>
grdclip_sig == Signature(<<Param("grid"), ParamDef("outgrid", PyNone)>>, FALSE, "kwargs")

S_out == Str(<<"o", ".", "n", "c">>)
S_in == Str(<<"i", ".", "n", "c">>)

binstats_names == {"outgrid", "G", "spacing", "I", "xshift"}
binstats_values == {S_out, PyNone, List(<<One, Two>>)}
binstats_args == {<<>>, <<S_in>>, <<NDArray>>, <<S_in, S_out>>}

grdclip_names == {"outgrid", "G", "new", "replace", "Sr"}
grdclip_values == {S_out, PyNone, List(<<One, Two>>)}
grdclip_args == {<<>>, <<S_in>>, <<DataArray>>, <<S_in, S_out>>}

\* largest number of keyword arguments in a call of a grid wrapper
MaxGridKw == 2

\* the body of binstats or grdclip up to "with Session() as lib", r being
\* the outcome of the decorators
GridBody(f, args, kwargs, r) ==
    IF r.exc # "none"
    THEN Ended(f, args, kwargs, r.exc, r.msg, r.warn)
    ELSE Begin(f, args, kwargs, r.args, r.kwargs, r.warn, "session")

\* the call of binstats up to "with Session() as lib"
binstats ==
    /\ Idle
    /\ \E args \in binstats_args, kwargs \in Dicts(binstats_names, binstats_values, MaxGridKw) :
         GridBody("binstats", args, kwargs,
                  Decorated(<<>>, binstats_aliases, binstats_sig, binstats_conversions,
                            args, kwargs))

grdclip_conversions ==
    << <<"R", "sequence">>, <<"Sa", "sequence">>, <<"Sb", "sequence">>,
       <<"Si", "sequence">>, <<"Sr", "sequence">> >>

\* the call of grdclip up to "with Session() as lib"
grdclip ==
    /\ Idle
    /\ \E args \in grdclip_args, kwargs \in Dicts(grdclip_names, grdclip_values, MaxGridKw) :
         GridBody("grdclip", args, kwargs,
                  Decorated(grdclip_deprecations, grdclip_aliases, grdclip_sig,
                            grdclip_conversions, args, kwargs))

\* the outgrid parameter of the running binstats, grdclip or grdpaste
Outgrid == IF fn = "grdpaste" THEN recv_args[3] ELSE recv_args[2]

\* "lib.virtualfile_in(check_kind=..., data=...) as vintbl"
VirtualfileIn ==
    /\ pc = "vin"
    /\ \/ /\ stack' = Append(stack, "vin")
          /\ log' = Append(log, Entered("vin"))
          /\ pc' = IF fn = "grdpaste" THEN "vin2" ELSE "vout"
          /\ UNCHANGED <<fn, in_args, in_kwargs, outcome, msg, ret, invoked, recv_args,
                         recv_kwargs, warnings, pending, kw, calls, result>>
       \/ Raise("GMTCLibError")

\* VirtualfileOut that goes on to the module call without the output file
VirtualfileOut_NotEntered ==
    /\ pc = "vout"
    /\ \/ /\ pc' = "call"
          /\ UNCHANGED <<fn, in_args, in_kwargs, outcome, msg, ret, invoked, recv_args,
                         recv_kwargs, warnings, stack, pending, kw, calls, log, result>>
       \/ /\ Outgrid = PyNone
          /\ Raise("GMTCLibError")

\* "lib.virtualfile_out(kind="grid", fname=outgrid) as voutgrd"
VirtualfileOut ==
    /\ pc = "vout"
    /\ \/ /\ stack' = Append(stack, "vout")
          /\ log' = Append(log, Entered("vout"))
          /\ pc' = "call"
          /\ UNCHANGED <<fn, in_args, in_kwargs, outcome, msg, ret, invoked, recv_args,
                         recv_kwargs, warnings, pending, kw, calls, result>>
       \/ /\ Outgrid = PyNone
          /\ Raise("GMTCLibError")

\* CallModule that keeps a G the caller put in kwargs
CallModule_KeepsG ==
    /\ pc = "call"
    /\ fn \in {"binstats", "grdclip", "grdpaste"}
    /\ LET kwargs == IF "G" \in DOMAIN kw THEN kw ELSE DictSet(kw, "G", virtualfile_out(Outgrid))
       IN /\ kw' = kwargs
          /\ calls' = Append(calls, [module |-> fn,
                                     infile |-> SelectSeq(stack, LAMBDA r : r \in {"vin", "vin2"}),
                                     args |-> BuildArgs(kwargs)])
    /\ \E ok \in BOOLEAN :
         /\ pc' = IF ok THEN "read" ELSE "unwind"
         /\ pending' = IF ok THEN "none" ELSE "GMTCLibError"
         /\ log' = log \o CallStatus(fn, ok)
    /\ UNCHANGED <<fn, in_args, in_kwargs, outcome, msg, ret, invoked, recv_args,
                   recv_kwargs, warnings, stack, result>>

\* CallModule that goes on to read the result whatever the module's status
CallModule_IgnoresStatus ==
    /\ pc = "call"
    /\ fn \in {"binstats", "grdclip", "grdpaste"}
    /\ LET kwargs == DictSet(kw, "G", virtualfile_out(Outgrid))
       IN /\ kw' = kwargs
          /\ calls' = Append(calls, [module |-> fn,
                                     infile |-> SelectSeq(stack, LAMBDA r : r \in {"vin", "vin2"}),
                                     args |-> BuildArgs(kwargs)])
    /\ \E ok \in BOOLEAN :
         /\ pc' = "read"
         /\ pending' = "none"
         /\ log' = log \o CallStatus(fn, ok)
    /\ UNCHANGED <<fn, in_args, in_kwargs, outcome, msg, ret, invoked, recv_args,
                   recv_kwargs, warnings, stack, result>>

\* kwargs["G"] = voutgrd; lib.call_module(module=..., args=build_arg_list(kwargs, infile=vintbl))
CallModule ==
    /\ pc = "call"
    /\ fn \in {"binstats", "grdclip", "grdpaste"}
    /\ LET kwargs == DictSet(kw, "G", virtualfile_out(Outgrid))
       IN /\ kw' = kwargs
          /\ calls' = Append(calls, [module |-> fn,
                                     infile |-> SelectSeq(stack, LAMBDA r : r \in {"vin", "vin2"}),
                                     args |-> BuildArgs(kwargs)])
    /\ \E ok \in BOOLEAN :
         /\ pc' = IF ok THEN "read" ELSE "unwind"
         /\ pending' = IF ok THEN "none" ELSE "GMTCLibError"
         /\ log' = log \o CallStatus(fn, ok)
    /\ UNCHANGED <<fn, in_args, in_kwargs, outcome, msg, ret, invoked, recv_args,
                   recv_kwargs, warnings, stack, result>>

\* return lib.virtualfile_to_raster(vfname=voutgrd, outgrid=outgrid)
ToRaster ==
    /\ pc = "read"
    /\ \/ /\ ret' = virtualfile_to_raster(Outgrid)
          /\ log' = Append(log, ReadFrom("vout"))
          /\ pc' = "unwind"
          /\ UNCHANGED <<fn, in_args, in_kwargs, outcome, msg, invoked, recv_args,
                         recv_kwargs, warnings, stack, pending, kw, calls, result>>
       \/ /\ Outgrid = PyNone
          /\ Raise("GMTCLibError")

----------------------------------------------------------------------------
(* grdpaste *)

grdpaste_aliases == <<Alias("f", "coltypes")>>
grdpaste_sig ==
    Signature(<<Param("grid1"), Param("grid2"), ParamDef("outgrid", PyNone),
                ParamDef("verbose", PyFalse)>>, FALSE, "kwargs")
grdpaste_names == {"outgrid", "G", "verbose", "Y"}
grdpaste_values == {S_out, PyNone, PyTrue}
grdpaste_args ==
    {<<S_in>>, <<S_in, S_in>>, <<S_in, DataArray>>, <<DataArray, S_in>>,
     <<DataArray, DataArray>>, <<S_in, S_in, S_out>>}

\* AliasSystem().add_common(V=verbose) merged with kwargs
AliasDict(verbose, kwargs) ==
    IF "V" \in DOMAIN kwargs THEN kwargs ELSE DictSet(kwargs, "V", verbose)

\* grdpaste_body without the test of the two grids' kinds
grdpaste_body_NoKindCheck(args, kwargs, r) ==
    IF r.exc # "none"
    THEN Ended("grdpaste", args, kwargs, r.exc, r.msg, r.warn)
    ELSE BeginWith("grdpaste", args, kwargs, r.args, r.kwargs, r.warn,
                   "session", AliasDict(r.args[4], r.kwargs))

\* the body of grdpaste up to "with Session() as lib", r being the outcome
\* of the decorators
grdpaste_body(args, kwargs, r) ==
    IF r.exc # "none"
    THEN Ended("grdpaste", args, kwargs, r.exc, r.msg, r.warn)
    ELSE IF data_kind(r.args[1]) # data_kind(r.args[2])
         THEN CallEnded("grdpaste", args, kwargs, "GMTTypeError", "same type",
                        TRUE, r.args, r.kwargs, r.warn)
         ELSE BeginWith("grdpaste", args, kwargs, r.args, r.kwargs, r.warn,
                        "session", AliasDict(r.args[4], r.kwargs))

\* the call of grdpaste up to "with Session() as lib"
grdpaste ==
    /\ Idle
    /\ \E args \in grdpaste_args, kwargs \in Dicts(grdpaste_names, grdpaste_values, MaxGridKw) :
         grdpaste_body(args, kwargs,
                       Decorated(<<>>, grdpaste_aliases, grdpaste_sig, <<>>, args, kwargs))

\* "lib.virtualfile_in(check_kind="raster", data=grid2) as vingrd2"
VirtualfileIn2 ==
    /\ pc = "vin2"
    /\ \/ /\ stack' = Append(stack, "vin2")
          /\ log' = Append(log, Entered("vin2"))
          /\ pc' = "vout"
          /\ UNCHANGED <<fn, in_args, in_kwargs, outcome, msg, ret, invoked, recv_args,
                         recv_kwargs, warnings, pending, kw, calls, result>>
       \/ Raise("GMTCLibError")

----------------
(* grdcut and grdfilter *)

grdcut_aliases ==
    << Alias("G", "outgrid"), Alias("R", "region"), Alias("J", "projection"),
       Alias("N", "extend"), Alias("S", "circ_subregion"), Alias("V", "verbose"),
       Alias("Z", "z_subregion") >>
grdfilter_aliases ==
    << Alias("D", "distance"), Alias("F", "filter"), Alias("G", "outgrid"),
       Alias("I", "spacing"), Alias("N", "nans"), Alias("R", "region"),
       Alias("T", "toggle"), Alias("V", "verbose") >>
gridops_sig == Signature(<<Param("grid")>>, FALSE, "kwargs")
gridops_conversions == <<<<"R", "sequence">>>>

gridops_names == {"outgrid", "G", "region", "yshift"}
gridops_values == {S_out, PyNone, List(<<One, Two>>)}
gridops_args == {<<>>, <<S_in>>, <<DataArray>>, <<NDArray>>, <<PyNone>>}

\* the body of grdcut or grdfilter up to "with GMTTempFile(suffix=".nc") as
\* tmpfile", r being the outcome of the decorators
GridOp(f, args, kwargs, r) ==
    IF r.exc # "none"
    THEN Ended(f, args, kwargs, r.exc, r.msg, r.warn)
    ELSE IF data_kind(r.args[1]) = "GMTInvalidInput"
         THEN CallEnded(f, args, kwargs, "GMTInvalidInput", "no data",
                        TRUE, r.args, r.kwargs, r.warn)
         ELSE Begin(f, args, kwargs, r.args, r.kwargs, r.warn, "tmpfile")

grdcut ==
    /\ Idle
    /\ \E args \in gridops_args, kwargs \in Dicts(gridops_names, gridops_values, MaxGridKw) :
         GridOp("grdcut", args, kwargs,
                Decorated(<<>>, grdcut_aliases, gridops_sig, gridops_conversions, args, kwargs))

grdfilter ==
    /\ Idle
    /\ \E args \in gridops_args, kwargs \in Dicts(gridops_names, gridops_values, MaxGridKw) :
         GridOp("grdfilter", args, kwargs,
                Decorated(<<>>, grdfilter_aliases, gridops_sig, gridops_conversions, args, kwargs))

\* "with GMTTempFile(suffix=".nc") as tmpfile"
TempFileEnter ==
    /\ pc = "tmpfile"
    /\ stack' = Append(stack, "tmpfile")
    /\ log' = Append(log, Entered("tmpfile"))
    /\ pc' = "session"
    /\ UNCHANGED <<fn, in_args, in_kwargs, outcome, msg, ret, invoked, recv_args,
                   recv_kwargs, warnings, pending, kw, calls, result>>

\* the choice of file_context by kind, then "with file_context as infile"
FileContext ==
    /\ pc = "context"
    /\ LET kind == data_kind(recv_args[1])
       IN \/ /\ kind \in {"file", "grid"}
             /\ stack' = Append(stack, IF kind = "file" THEN "dummy" ELSE "vin")
             /\ log' = Append(log, Entered(IF kind = "file" THEN "dummy" ELSE "vin"))
             /\ pc' = "call"
             /\ UNCHANGED <<fn, in_args, in_kwargs, outcome, msg, ret, invoked, recv_args,
                            recv_kwargs, warnings, pending, kw, calls, result>>
          \/ /\ kind = "grid"
             /\ Raise("GMTCLibError")
          \/ /\ kind \notin {"file", "grid"}
             /\ Raise("GMTInvalidInput")

\* the body of "with file_context as infile"
GridOpCallModule ==
    /\ pc = "call"
    /\ fn \in {"grdcut", "grdfilter"}
    /\ LET kwargs == IF "G" \notin DOMAIN kw THEN DictSet(kw, "G", TmpName) ELSE kw
       IN /\ kw' = kwargs
          /\ calls' = Append(calls, [module |-> fn, infile |-> <<stack[Len(stack)]>>,
                                     args |-> BuildArgs(kwargs)])
    /\ \E ok \in BOOLEAN :
         /\ pc' = IF ok THEN "exit" ELSE "unwind"
         /\ pending' = IF ok THEN "none" ELSE "GMTCLibError"
         /\ log' = log \o CallStatus(fn, ok)
    /\ UNCHANGED <<fn, in_args, in_kwargs, outcome, msg, ret, invoked, recv_args,
                   recv_kwargs, warnings, stack, result>>

\* the with blocks of file_context and of the session end normally
ExitInner ==
    /\ pc = "exit"
    /\ stack' = SubSeq(stack, 1, Len(stack) - 1)
    /\ log' = Append(log, Left(stack[Len(stack)]))
    /\ pc' = IF Len(stack) = 2 THEN "result" ELSE "exit"
    /\ UNCHANGED <<fn, in_args, in_kwargs, outcome, msg, ret, invoked, recv_args,
                   recv_kwargs, warnings, pending, kw, calls, result>>

\* "if outgrid == tmpfile.name: ... else: result = None", then "return result"
GridOpResult ==
    /\ pc = "result"
    /\ \/ /\ ret' = IF kw["G"] = TmpName THEN "DataArray" ELSE "None"
          /\ log' = IF kw["G"] = TmpName THEN Append(log, ReadFrom("tmpfile")) ELSE log
          /\ pc' = "unwind"
          /\ UNCHANGED <<fn, in_args, in_kwargs, outcome, msg, invoked, recv_args,
                         recv_kwargs, warnings, stack, pending, kw, calls, result>>
       \/ /\ kw["G"] = TmpName
          /\ Raise("OSError")

----------------------------------------------------------------------------
(* BasePlotting.grdimage *)

grdimage_aliases ==
    << Alias("A", "img_out"), Alias("B", "frame"), Alias("C", "cmap"),
       Alias("D", "img_in"), Alias("E", "dpi"), Alias("G", "bit_color"),
       Alias("I", "shading"), Alias("J", "projection"), Alias("M", "monochrome"),
       Alias("N", "no_clip"), Alias("Q", "nan_transparent"), Alias("R", "region"),
       Alias("U", "timestamp"), Alias("V", "verbose"), Alias("X", "xshift"),
       Alias("Y", "yshift"), Alias("n", "interpolation"), Alias("p", "perspective"),
       Alias("t", "transparency"), Alias("x", "cores") >>
grdimage_sig == Signature(<<Param("grid")>>, FALSE, "kwargs")
grdimage_conversions == <<<<"R", "sequence">>, <<"p", "sequence">>>>
grdimage_names == {"img_out", "A", "cmap", "region", "xshift"}
grdimage_values == {S_out, List(<<One, Two>>)}
grdimage_args == {<<>>, <<S_in>>, <<DataArray>>, <<NDArray>>, <<PyNone>>}

\* the body of grdimage up to "with Session() as lib", r being the outcome
\* of the decorators
grdimage_body(args, kwargs, r) ==
    IF r.exc # "none"
    THEN Ended("grdimage", args, kwargs, r.exc, r.msg, r.warn)
    ELSE IF data_kind(r.args[1]) = "GMTInvalidInput"
         THEN CallEnded("grdimage", args, kwargs, "GMTInvalidInput", "no data",
                        TRUE, r.args, r.kwargs, r.warn)
         ELSE Begin("grdimage", args, kwargs, r.args, r.kwargs, r.warn, "session")

\* the call of grdimage up to "with Session() as lib"
grdimage ==
    /\ Idle
    /\ \E args \in grdimage_args, kwargs \in Dicts(grdimage_names, grdimage_values, MaxGridKw) :
         grdimage_body(args, kwargs,
                       Decorated(<<>>, grdimage_aliases, grdimage_sig, grdimage_conversions,
                                 args, kwargs))

\* the body of "with file_context as fname" in grdimage
grdimage_call_module ==
    /\ pc = "call"
    /\ fn = "grdimage"
    /\ calls' = Append(calls, [module |-> fn, infile |-> <<stack[Len(stack)]>>,
                               args |-> BuildArgs(kw)])
    /\ \E ok \in BOOLEAN :
         /\ pending' = IF ok THEN "none" ELSE "GMTCLibError"
         /\ log' = log \o CallStatus(fn, ok)
         /\ ret' = IF ok THEN "None" ELSE ret
    /\ pc' = "unwind"
    /\ UNCHANGED <<fn, in_args, in_kwargs, outcome, msg, invoked, recv_args,
                   recv_kwargs, warnings, stack, kw, result>>

----------------------------------------------------------------------------
(* BasePlotting.plot and BasePlotting.plot3d *)

plot_aliases ==
    << Alias("A", "straight_line"), Alias("B", "frame"), Alias("C", "cmap"),
       Alias("D", "offset"), Alias("E", "error_bar"), Alias("F", "connection"),
       Alias("G", "color"), Alias("I", "intensity"), Alias("J", "projection"),
       Alias("L", "close"), Alias("N", "no_clip"), Alias("R", "region"),
       Alias("S", "style"), Alias("U", "timestamp"), Alias("V", "verbose"),
       Alias("W", "pen"), Alias("X", "xshift"), Alias("Y", "yshift"),
       Alias("Z", "zvalue"), Alias("i", "columns"), Alias("l", "label"),
       Alias("p", "perspective"), Alias("t", "transparency") >>
plot3d_aliases ==
    << Alias("A", "straight_line"), Alias("B", "frame"), Alias("C", "cmap"),
       Alias("D", "offset"), Alias("G", "color"), Alias("I", "intensity"),
       Alias("J", "projection"), Alias("Jz", "zscale"), Alias("JZ", "zsize"),
       Alias("L", "close"), Alias("N", "no_clip"), Alias("Q", "no_sort"),
       Alias("R", "region"), Alias("S", "style"), Alias("V", "verbose"),
       Alias("W", "pen"), Alias("X", "xshift"), Alias("Y", "yshift"),
       Alias("Z", "zvalue"), Alias("i", "columns"), Alias("l", "label"),
       Alias("p", "perspective"), Alias("t", "transparency") >>
plot_conversions == <<<<"R", "sequence">>, <<"i", "sequence_comma">>, <<"p", "sequence">>>>
plot_sig ==
    Signature(<<ParamDef("x", PyNone), ParamDef("y", PyNone), ParamDef("data", PyNone),
                ParamDef("sizes", PyNone), ParamDef("direction", PyNone)>>, FALSE, "kwargs")
plot3d_sig ==
    Signature(<<ParamDef("x", PyNone), ParamDef("y", PyNone), ParamDef("z", PyNone),
                ParamDef("data", PyNone), ParamDef("sizes", PyNone),
                ParamDef("direction", PyNone)>>, FALSE, "kwargs")

\* a 1-D numpy array, named by tag
Arr(tag) == [t |-> "ndarray", s |-> <<tag>>, items |-> <<>>]

\* the arguments of the calls of plot and plot3d: an option is a dict with
\* one name, or the empty dict when the call leaves the option out
Opt(name, vals) == {EmptyDict} \cup {name :> v : v \in vals}
plot_args == {<<>>, <<Arr("x")>>, <<Arr("x"), Arr("y")>>}
plot3d_args == {<<>>, <<Arr("x"), Arr("y"), Arr("z")>>}
plot_data == Opt("data", {S_in, NDArray, DataArray})
plot_sizes == Opt("sizes", {Arr("s")})
plot_direction == Opt("direction", {List(<<Arr("a"), Arr("l")>>)})
plot_color ==
    Opt("G", {Str(<<"r", "e", "d">>), Arr("c")}) \cup Opt("color", {Arr("c")})
plot_style == Opt("style", {Str(<<"v", "1", "c">>), Str(<<"c", "1", "c">>)})
plot_transparency == Opt("t", {Str(<<"5", "0">>), Arr("t")})

\* pygmt.helpers.data_kind(data, x, y, z): the exception it raises or the
\* kind of the input
data_kind_xyz(data, x, y, z) ==
    IF data = PyNone /\ x = PyNone /\ y = PyNone THEN "GMTInvalidInput"
    ELSE IF data # PyNone /\ (x # PyNone \/ y # PyNone \/ z # PyNone) THEN "GMTInvalidInput"
    ELSE IF data = PyNone /\ (x = PyNone \/ y = PyNone) THEN "GMTInvalidInput"
    ELSE IF data.t = "str" THEN "file"
    ELSE IF data.t = "DataArray" THEN "grid"
    ELSE IF data # PyNone THEN "matrix"
    ELSE "vectors"

\* extra_arrays and kwargs while the body of plot builds them; exc is the
\* exception raised on the way
Extras(arrays, kwargs) == [exc |-> "none", arrays |-> arrays, kwargs |-> kwargs]
ExtrasRaise == [exc |-> "GMTInvalidInput", arrays |-> <<>>, kwargs |-> EmptyDict]

\* if "S" in kwargs and kwargs["S"][0] in "vV" and direction is not None:
\*     extra_arrays.extend(direction)
AddDirection(direction, kwargs) ==
    IF "S" \in DOMAIN kwargs /\ kwargs["S"].s[1] \in {"v", "V"} /\ direction # PyNone
    THEN Extras(direction.items, kwargs)
    ELSE Extras(<<>>, kwargs)

\* if "G" in kwargs and not isinstance(kwargs["G"], str): ...
AddColor(kind, e) ==
    IF "G" \in DOMAIN e.kwargs /\ e.kwargs["G"].t # "str"
    THEN IF kind # "vectors" THEN ExtrasRaise
         ELSE Extras(Append(e.arrays, e.kwargs["G"]), DictPop(e.kwargs, "G"))
    ELSE e

\* if sizes is not None: ...
AddSizes(kind, sizes, e) ==
    IF e.exc # "none" THEN e
    ELSE IF sizes # PyNone
         THEN IF kind # "vectors" THEN ExtrasRaise
              ELSE Extras(Append(e.arrays, sizes), e.kwargs)
         ELSE e

\* if "t" in kwargs and is_nonstr_iter(kwargs["t"]): ...
AddTransparency(e) ==
    IF e.exc # "none" THEN e
    ELSE IF "t" \in DOMAIN e.kwargs /\ is_nonstr_iter(e.kwargs["t"])
         THEN Extras(Append(e.arrays, e.kwargs["t"]), DictSet(e.kwargs, "t", Str(<<>>)))
         ELSE e

\* ExtraArrays that takes the sizes before the color
ExtraArrays_SizesFirst(kind, sizes, direction, kwargs) ==
    AddTransparency(AddColor(kind, AddSizes(kind, sizes, AddDirection(direction, kwargs))))

\* the statements of plot between data_kind and "with Session() as lib"
ExtraArrays(kind, sizes, direction, kwargs) ==
    AddTransparency(AddSizes(kind, sizes, AddColor(kind, AddDirection(direction, kwargs))))

\* the number of coordinate parameters that precede data
Coordinates(f) == IF f = "plot3d" THEN 3 ELSE 2

\* kind = data_kind(data, x, y) in plot, data_kind(data, x, y, z) in plot3d,
\* of the arguments rargs the body receives
PlotKind(f, rargs) ==
    data_kind_xyz(rargs[Coordinates(f) + 1], rargs[1], rargs[2],
                  IF f = "plot3d" THEN rargs[3] ELSE PyNone)

\* the body of plot from extra_arrays = [] to "with Session() as lib", e
\* being the outcome of the statements in between
plot_extras(f, args, kwargs, r, e) ==
    IF e.exc # "none"
    THEN CallEnded(f, args, kwargs, e.exc, "arrays", TRUE, r.args, r.kwargs, r.warn)
    ELSE BeginWith(f, args, kwargs, r.args, r.kwargs, r.warn, "session", e.kwargs)

\* the body of plot from kind = data_kind(...) on
plot_kind(f, args, kwargs, r, kind) ==
    IF kind = "GMTInvalidInput"
    THEN CallEnded(f, args, kwargs, "GMTInvalidInput", "no data", TRUE,
                   r.args, r.kwargs, r.warn)
    ELSE plot_extras(f, args, kwargs, r,
                     ExtraArrays(kind, r.args[Coordinates(f) + 2],
                                 r.args[Coordinates(f) + 3], r.kwargs))

\* the body of plot or plot3d up to "with Session() as lib", r being the
\* outcome of the decorators
plot_body(f, args, kwargs, r) ==
    IF r.exc # "none"
    THEN Ended(f, args, kwargs, r.exc, r.msg, r.warn)
    ELSE plot_kind(f, args, kwargs, r, PlotKind(f, r.args))

\* the call of plot up to "with Session() as lib"
plot ==
    /\ Idle
    /\ \E args \in plot_args, d \in plot_data, sz \in plot_sizes, dir \in plot_direction,
          c \in plot_color, st \in plot_style, t \in plot_transparency :
         plot_body("plot", args, d @@ sz @@ dir @@ c @@ st @@ t,
                   Decorated(<<>>, plot_aliases, plot_sig, plot_conversions, args,
                             d @@ sz @@ dir @@ c @@ st @@ t))

\* the call of plot3d up to "with Session() as lib"
plot3d ==
    /\ Idle
    /\ \E args \in plot3d_args, d \in plot_data, sz \in plot_sizes, dir \in plot_direction,
          c \in plot_color, st \in plot_style, t \in plot_transparency :
         plot_body("plot3d", args, d @@ sz @@ dir @@ c @@ st @@ t,
                   Decorated(<<>>, plot3d_aliases, plot3d_sig, plot_conversions, args,
                             d @@ sz @@ dir @@ c @@ st @@ t))

\* the choice of file_context by kind, then "with file_context as fname";
\* no branch binds file_context when data is an xarray.DataArray
PlotFileContext ==
    /\ pc = "plotcontext"
    /\ \/ /\ PlotKind(fn, recv_args) = "file"
          /\ stack' = Append(stack, "dummy")
          /\ log' = Append(log, Entered("dummy"))
          /\ pc' = "call"
          /\ UNCHANGED <<fn, in_args, in_kwargs, outcome, msg, ret, invoked, recv_args,
                         recv_kwargs, warnings, pending, kw, calls, result>>
       \/ /\ PlotKind(fn, recv_args) \in {"matrix", "vectors"}
          /\ stack' = Append(stack, "vin")
          /\ log' = Append(log, Entered("vin"))
          /\ pc' = "call"
          /\ UNCHANGED <<fn, in_args, in_kwargs, outcome, msg, ret, invoked, recv_args,
                         recv_kwargs, warnings, pending, kw, calls, result>>
       \/ /\ PlotKind(fn, recv_args) \in {"matrix", "vectors"}
          /\ Raise("GMTCLibError")
       \/ /\ PlotKind(fn, recv_args) = "grid"
          /\ Raise("UnboundLocalError")

\* the columns of the file that file_context names: the data, or the
\* arguments of lib.virtualfile_from_vectors
Columns(f, rargs, rkwargs) ==
    IF PlotKind(f, rargs) = "vectors"
    THEN SubSeq(rargs, 1, Coordinates(f))
           \o ExtraArrays("vectors", rargs[Coordinates(f) + 2], rargs[Coordinates(f) + 3],
                          rkwargs).arrays
    ELSE <<rargs[Coordinates(f) + 1]>>

\* the body of "with file_context as fname" in plot and plot3d
PlotCallModule ==
    /\ pc = "call"
    /\ fn \in {"plot", "plot3d"}
    /\ calls' = Append(calls, [module |-> fn, infile |-> Columns(fn, recv_args, recv_kwargs),
                               args |-> BuildArgs(kw)])
    /\ \E ok \in BOOLEAN :
         /\ pending' = IF ok THEN "none" ELSE "GMTCLibError"
         /\ log' = log \o CallStatus(fn, ok)
         /\ ret' = IF ok THEN "None" ELSE ret
    /\ pc' = "unwind"
    /\ UNCHANGED <<fn, in_args, in_kwargs, outcome, msg, invoked, recv_args,
                   recv_kwargs, warnings, stack, kw, result>>

----------------------------------------------------------------------------
(* pygmt.clib.conversion._to_numpy *)

\* longest buffer of an input array
MaxLen == 3

IntTypes == {"int8", "int16", "int32", "int64", "uint8", "uint16", "uint32", "uint64"}
FloatTypes == {"float16", "float32", "float64"}
NumpyNumeric == IntTypes \cup FloatTypes \cup {"longdouble", "complex64", "complex128"}
StringTypes == {"str_", "string", "large_string", "string_view"}

\* dtype.numpy_dtype of the pandas nullable dtypes
numpy_dtype ==
    [Int8 |-> "int8", Int16 |-> "int16", Int32 |-> "int32", Int64 |-> "int64",
     UInt8 |-> "uint8", UInt16 |-> "uint16", UInt32 |-> "uint32", UInt64 |-> "uint64",
     Float32 |-> "float32", Float64 |-> "float64"]

\* a dtype: family is the library that defines it ("python" for the elements
\* of a list), unit the time unit of a date or time type
DType(family, name, unit) == [family |-> family, name |-> name, unit |-> unit]

\* an array-like: data is its buffer and step its stride, so that its
\* elements are data[1], data[1 + step], ...; a missing element is "NA"
ArrayLike(container, dtype, data, step) ==
    [container |-> container, dtype |-> dtype, data |-> data, step |-> step]

\* the elements of the array-like a, in order
View(a) == [i \in 1..((Len(a.data) + a.step - 1) \div a.step) |-> a.data[(i - 1) * a.step + 1]]

HasNA(a) == \E i \in DOMAIN a.data : (i - 1) % a.step = 0 /\ a.data[i] = "NA"

NumElems == {"1", "2"}
StrElems == {"abc", "2018-02"}
DateElems == {"2024-01-01", "2024-01-02"}
Buffers(elems) == Seqs(elems, MaxLen) \ {<<>>}
Steps == {1, 2}

\* Python lists of numbers, strings and datetime objects
ListInputs ==
    {ArrayLike("list", DType("python", n, ""), b, 1) :
        n \in {"int", "float", "complex"}, b \in Buffers(NumElems)}
    \cup {ArrayLike("list", DType("python", "str", ""), b, 1) : b \in Buffers(StrElems)}
    \cup {ArrayLike("list", DType("python", "datetime", ""), b, 1) : b \in Buffers(DateElems)}

\* NumPy arrays, contiguous or strided views
NumpyInputs ==
    {ArrayLike("ndarray", DType("numpy", n, ""), b, st) :
        n \in NumpyNumeric, b \in Buffers(NumElems), st \in Steps}
    \cup {ArrayLike("ndarray", DType("numpy", "str_", ""), b, st) :
             b \in Buffers(StrElems), st \in Steps}
    \cup {ArrayLike("ndarray", DType("numpy", "datetime64", u), b, 1) :
             u \in {"D", "s", "ms", "ns"}, b \in Buffers(DateElems)}

\* the dtypes of a pandas.Series or PyArrow array that can hold a missing value
NullableDTypes(container) ==
    {DType("pyarrow", n, "") : n \in IntTypes \cup FloatTypes}
    \cup (IF container = "Series"
          THEN {DType("pandas", n, "") : n \in DOMAIN numpy_dtype}
                 \cup {DType("numpy", n, "") : n \in FloatTypes \cup {"longdouble"}}
          ELSE {})

\* pandas.Series and PyArrow arrays
TableInputs ==
    {ArrayLike("Series", d, b, st) :
        d \in NullableDTypes("Series"), b \in Buffers(NumElems \cup {"NA"}), st \in Steps}
    \cup {ArrayLike("pyarrow", d, b, st) :
             d \in NullableDTypes("pyarrow"), b \in Buffers(NumElems \cup {"NA"}), st \in Steps}
    \cup {ArrayLike("Series", DType("numpy", n, ""), b, st) :
             n \in IntTypes \cup {"complex64", "complex128"}, b \in Buffers(NumElems),
             st \in Steps}
    \cup {ArrayLike(c, DType("pyarrow", n, ""), b, 1) :
             c \in {"Series", "pyarrow"}, n \in {"string", "large_string", "string_view"},
             b \in Buffers(StrElems)}
    \cup {ArrayLike(c, d, b, 1) :
             c \in {"Series", "pyarrow"},
             d \in {DType("pyarrow", "date32", "day"), DType("pyarrow", "date64", "ms")}
                     \cup {DType("pyarrow", "timestamp", u) : u \in {"s", "ms", "us", "ns"}},
             b \in Buffers(DateElems)}

to_numpy_inputs == ListInputs \cup NumpyInputs \cup TableInputs

\* a numpy.ndarray with its dtype, the time unit of a datetime64 dtype, its
\* elements and flags.c_contiguous
NumpyArray(dtype, unit, values, contiguous) ==
    [t |-> "ndarray", dtype |-> dtype, unit |-> unit, values |-> values,
     c_contiguous |-> contiguous]

\* the dtype of the array that np.ascontiguousarray makes of a Python list
ListDtype(name) ==
    CASE name = "int" -> "int64"
      [] name = "float" -> "float64"
      [] name = "complex" -> "complex128"
      [] name = "str" -> "str_"
      [] OTHER -> "datetime64"

\* ResultDtype that keeps an integer dtype when values are missing
ResultDtype_KeepsInteger(a) ==
    IF a.dtype.family = "python" THEN ListDtype(a.dtype.name)
    ELSE IF a.dtype.name \in StringTypes THEN "str_"
    ELSE IF a.dtype.name \in {"date32", "date64", "timestamp", "datetime64"} THEN "datetime64"
    ELSE IF a.dtype.family = "pandas" THEN numpy_dtype[a.dtype.name]
    ELSE a.dtype.name

\* the dtype of the result: the NumPy dtype of the input's dtype, float64
\* for an integer dtype with missing values
ResultDtype(a) ==
    IF a.dtype.family = "python" THEN ListDtype(a.dtype.name)
    ELSE IF a.dtype.name \in StringTypes THEN "str_"
    ELSE IF a.dtype.name \in {"date32", "date64", "timestamp", "datetime64"} THEN "datetime64"
    ELSE IF a.dtype.family = "pandas"
         THEN IF HasNA(a) /\ numpy_dtype[a.dtype.name] \in IntTypes THEN "float64"
              ELSE numpy_dtype[a.dtype.name]
         ELSE IF HasNA(a) /\ a.dtype.name \in IntTypes THEN "float64"
              ELSE a.dtype.name

\* the time unit of the result: "D" for date32[day], that of the input's
\* dtype otherwise; datetime.datetime objects have microseconds
ResultUnit(a) ==
    IF a.dtype.family = "python"
    THEN IF a.dtype.name = "datetime" THEN "us" ELSE ""
    ELSE IF a.dtype.name = "date32" THEN "D"
    ELSE a.dtype.unit

\* the elements of the result: a missing element becomes NaN
ResultValues(a) == [i \in DOMAIN View(a) |-> IF View(a)[i] = "NA" THEN "NaN" ELSE View(a)[i]]

\* to_numpy that returns a view with the strides of its input
to_numpy_KeepsStrides(a) ==
    NumpyArray(ResultDtype(a), ResultUnit(a), ResultValues(a), a.step = 1)

\* _to_numpy(data): np.ascontiguousarray(data, dtype=numpy_dtype)
to_numpy(a) == NumpyArray(ResultDtype(a), ResultUnit(a), ResultValues(a), TRUE)

\* the end of a call of _to_numpy(data) that returned array
Returned(f, data, array) ==
    /\ pc' = "done"
    /\ fn' = f
    /\ in_args' = <<data>>
    /\ in_kwargs' = EmptyDict
    /\ outcome' = "returned"
    /\ msg' = ""
    /\ ret' = "ndarray"
    /\ invoked' = TRUE
    /\ recv_args' = <<>>
    /\ recv_kwargs' = EmptyDict
    /\ warnings' = <<>>
    /\ stack' = <<>>
    /\ pending' = "none"
    /\ kw' = EmptyDict
    /\ calls' = <<>>
    /\ log' = <<>>
    /\ result' = array

\* a call of _to_numpy
ToNumpy ==
    /\ Idle
    /\ \E data \in to_numpy_inputs : Returned("to_numpy", data, to_numpy(data))

----------------------------------------------------------------------------
(* The caller *)

\* the caller has seen the outcome of the call; the next call starts afresh
Finish ==
    /\ pc = "done"
    /\ pc' = "idle"
    /\ fn' = "none"
    /\ in_args' = <<>>
    /\ in_kwargs' = EmptyDict
    /\ outcome' = "none"
    /\ msg' = ""
    /\ ret' = "none"
    /\ invoked' = FALSE
    /\ recv_args' = <<>>
    /\ recv_kwargs' = EmptyDict
    /\ warnings' = <<>>
    /\ stack' = <<>>
    /\ pending' = "none"
    /\ kw' = EmptyDict
    /\ calls' = <<>>
    /\ log' = <<>>
    /\ result' = NoResult

----------------------------------------------------------------------------
(* Properties of use_alias *)

UseAliasFns ==
    {"my_module", "coast", "basemap", "binstats", "grdclip", "grdpaste", "grdcut", "grdfilter",
     "grdimage", "plot", "plot3d"}
\* the functions whose outermost argument decorator is use_alias
AliasOutermost == UseAliasFns \ {"grdclip"}

AliasesOf(f) ==
    CASE f = "my_module" -> my_module_aliases
      [] f = "coast" -> coast_aliases
      [] f = "basemap" -> basemap_aliases
      [] f = "binstats" -> binstats_aliases
      [] f = "grdclip" -> grdclip_aliases
      [] f = "grdpaste" -> grdpaste_aliases
      [] f = "grdcut" -> grdcut_aliases
      [] f = "grdfilter" -> grdfilter_aliases
      [] f = "grdimage" -> grdimage_aliases
      [] f = "plot" -> plot_aliases
      [] f = "plot3d" -> plot3d_aliases
      [] OTHER -> <<>>

ConversionsOf(f) ==
    CASE f = "coast" -> coast_conversions
      [] f = "basemap" -> basemap_conversions
      [] f = "binstats" -> binstats_conversions
      [] f = "grdclip" -> grdclip_conversions
      [] f \in {"grdcut", "grdfilter"} -> gridops_conversions
      [] f = "grdimage" -> grdimage_conversions
      [] f \in {"plot", "plot3d"} -> plot_conversions
      [] f = "module1" -> module1_conversions
      [] f = "module2" -> module2_conversions
      [] OTHER -> <<>>

Registered(f) == {ConversionsOf(f)[i][1] : i \in DOMAIN ConversionsOf(f)}

\* the alias pairs of the running function of which the call gives both forms
BothForms ==
    {i \in DOMAIN AliasesOf(fn) :
        /\ ~AliasesOf(fn)[i].dash
        /\ AliasesOf(fn)[i].short \in DOMAIN in_kwargs
        /\ AliasesOf(fn)[i].long[1] \in DOMAIN in_kwargs}

\* the alias pairs of the running function of which the call gives one form
OneForm ==
    {i \in DOMAIN AliasesOf(fn) :
        /\ ~AliasesOf(fn)[i].dash
        /\ (AliasesOf(fn)[i].short \in DOMAIN in_kwargs)
             # (AliasesOf(fn)[i].long[1] \in DOMAIN in_kwargs)}

\* C1: a call of a use_alias function that gives both the short and the long
\* form of an alias raises GMTInvalidInput (with the "can't coexist" message
\* when use_alias is the outermost decorator) and the wrapped function is
\* not invoked.
C1_BothFormsRaise ==
    (fn \in UseAliasFns /\ BothForms # {}) =>
        /\ outcome = "GMTInvalidInput"
        /\ ~invoked
        /\ fn \in AliasOutermost => msg = "coexist"

C1_Witness ==
    /\ pc = "done"
    /\ fn = "my_module"
    /\ {"J", "projection", "region"} \subseteq DOMAIN in_kwargs
    /\ outcome = "GMTInvalidInput"
    /\ msg = "coexist"

\* the value the call gives under the name k or under its long form
GivenAs(k) ==
    IF k \in DOMAIN in_kwargs THEN in_kwargs[k]
    ELSE LET i == CHOOSE j \in DOMAIN AliasesOf(fn) : AliasesOf(fn)[j].short = k
         IN in_kwargs[AliasesOf(fn)[i].long[1]]

\* the names of the call with every long form replaced by its short form
ShortNames ==
    {IF \E i \in DOMAIN AliasesOf(fn) : AliasesOf(fn)[i].long[1] = k
     THEN AliasesOf(fn)[CHOOSE i \in DOMAIN AliasesOf(fn) : AliasesOf(fn)[i].long[1] = k].short
     ELSE k : k \in DOMAIN in_kwargs}

\* C2: when a call gives exactly one form of an alias, with value v, and none
\* of the removed parameters, the wrapped function receives v under the short
\* name and the long name is absent; my_module receives the same kwargs
\* whichever spelling is used for each alias.
C2_OneFormDelivered ==
    /\ (fn \in UseAliasFns /\ invoked) =>
          \A i \in OneForm :
             LET a == AliasesOf(fn)[i]
             IN /\ a.long[1] \notin DOMAIN recv_kwargs
                /\ a.short \in DOMAIN recv_kwargs
                /\ a.short \notin Registered(fn) => recv_kwargs[a.short] = GivenAs(a.short)
    /\ (fn = "my_module" /\ BothForms = {} /\ DOMAIN in_kwargs \cap Removed = {}) =>
          /\ invoked
          /\ recv_kwargs = [k \in ShortNames |-> GivenAs(k)]

C2_Witness ==
    /\ pc = "done"
    /\ fn = "my_module"
    /\ invoked
    /\ DOMAIN in_kwargs = {"region", "J"}
    /\ DOMAIN recv_kwargs = {"R", "J"}
    /\ recv_kwargs["R"] = in_kwargs["region"]

\* C3: a call of a use_alias function with U, timestamp, X, xshift, Y or
\* yshift among its keyword arguments raises GMTInvalidInput; the wrapped
\* function is not invoked, no session is opened and no module is called.
C3_RemovedParametersRaise ==
    (fn \in UseAliasFns /\ DOMAIN in_kwargs \cap Removed # {}) =>
        /\ outcome = "GMTInvalidInput"
        /\ ~invoked
        /\ stack = <<>>
        /\ calls = <<>>

C3_Witness ==
    /\ pc = "done"
    /\ fn = "coast"
    /\ DOMAIN in_kwargs = {"timestamp", "land"}
    /\ outcome = "GMTInvalidInput"
    /\ msg = "no longer supported"

----------------------------------------------------------------------------
(* Properties of kwargs_to_strings *)

ConvertingFns == {"module1", "module2"}
SigOf(f) == IF f = "module1" THEN module1_sig ELSE module2_sig
ParamIndex(sig, name) == CHOOSE i \in DOMAIN sig.params : sig.params[i].name = name

\* the names of the arguments of the call, defaults included
ArgNames == ParamNames(SigOf(fn)) \cup DOMAIN in_kwargs

\* the value the call gives to the argument arg: by position, by keyword, or
\* by the default of the parameter
Supplied(arg) ==
    IF arg \in ParamNames(SigOf(fn))
    THEN IF ParamIndex(SigOf(fn), arg) <= Len(in_args)
         THEN in_args[ParamIndex(SigOf(fn), arg)]
         ELSE IF arg \in DOMAIN in_kwargs THEN in_kwargs[arg]
         ELSE SigOf(fn).params[ParamIndex(SigOf(fn), arg)].def
    ELSE in_kwargs[arg]

\* the value the wrapped function receives for the argument arg
Received(arg) ==
    IF arg \in ParamNames(SigOf(fn))
    THEN recv_args[ParamIndex(SigOf(fn), arg)]
    ELSE recv_kwargs[arg]

SepOf(fmt) == IF fmt = "sequence" THEN "/" ELSE ","

\* the str() of the first n items with sep between neighbours
RECURSIVE JoinedUpTo(_, _, _)
JoinedUpTo(sep, items, n) ==
    IF n = 0 THEN <<>>
    ELSE IF n = 1 THEN items[1].s
    ELSE JoinedUpTo(sep, items, n - 1) \o <<sep>> \o items[n].s

Joined(sep, value) == Str(JoinedUpTo(sep, value.items, Len(value.items)))

NoSpaces(value) == \A i \in DOMAIN value.items : ~HasSpace(value.items[i].s)

\* the registered arguments of the call whose value is a list or a tuple
RegisteredIterables ==
    {i \in DOMAIN ConversionsOf(fn) :
        /\ ConversionsOf(fn)[i][1] \in ArgNames
        /\ Supplied(ConversionsOf(fn)[i][1]).t \in {"list", "tuple"}}

\* C4 as stated: every registered non-string iterable reaches the wrapped
\* function as the str() of its items joined by the separator of its format.
C4_JoinedAsGiven ==
    (fn \in ConvertingFns /\ invoked) =>
        \A i \in RegisteredIterables :
            Received(ConversionsOf(fn)[i][1])
                = Joined(SepOf(ConversionsOf(fn)[i][2]), Supplied(ConversionsOf(fn)[i][1]))

\* C4 (amended): a registered non-string iterable none of whose items has a
\* space in its str() reaches the wrapped function as the str() of its items
\* joined, in their order, by "/" (sequence) or "," (sequence_comma).
C4_JoinedWithoutSpaces ==
    (fn \in ConvertingFns /\ invoked) =>
        \A i \in RegisteredIterables :
            NoSpaces(Supplied(ConversionsOf(fn)[i][1])) =>
                Received(ConversionsOf(fn)[i][1])
                    = Joined(SepOf(ConversionsOf(fn)[i][2]), Supplied(ConversionsOf(fn)[i][1]))

C4_Witness ==
    /\ pc = "done"
    /\ fn = "module1"
    /\ DOMAIN in_kwargs = {"R", "i"}
    /\ in_kwargs["R"] = List(<<One, Two>>)
    /\ in_kwargs["i"] = Tuple(<<One, Two, One>>)
    /\ recv_kwargs["R"] = Str(<<"1", "/", "2">>)
    /\ recv_kwargs["i"] = Str(<<"1", ",", "2", ",", "1">>)

\* C5: an argument that is not registered, whatever its type, and a
\* registered argument whose value is a string, a bool or None reach the
\* wrapped function unchanged.
C5_PassThrough ==
    (fn \in ConvertingFns /\ invoked) =>
        /\ \A arg \in ArgNames :
              (arg \notin Registered(fn) \/ Supplied(arg).t \in {"str", "bool", "NoneType"})
                  => Received(arg) = Supplied(arg)
        /\ fn = "module1" => recv_args = in_args

C5_Witness ==
    /\ pc = "done"
    /\ fn = "module1"
    /\ invoked
    /\ DOMAIN in_kwargs = {"files", "R"}
    /\ in_kwargs["files"].t = "list"
    /\ in_kwargs["R"] = Str(<<"5", "/", "6">>)
    /\ recv_kwargs = in_kwargs

\* the value v after the conversion with separator sep
Expected(v, sep) == IF v.t \in {"list", "tuple"} /\ NoSpaces(v) THEN Joined(sep, v) ELSE v

\* C6: module(files, offset=("-54p", "-54p"), **kwargs) receives files and
\* the converted offset in their positions whether they are given by position,
\* by keyword or, for offset, left to the default, and receives the other
\* keyword arguments under their names, the registered ones converted.
C6_SameConversionEveryWay ==
    (fn = "module2" /\ invoked) =>
        /\ Len(recv_args) = 2
        /\ recv_args[1] = Supplied("files")
        /\ recv_args[2] = Expected(Supplied("offset"), "/")
        /\ (Len(in_args) < 2 /\ "offset" \notin DOMAIN in_kwargs)
              => recv_args[2] = Str(S_54p \o <<"/">> \o S_54p)
        /\ DOMAIN recv_kwargs = (DOMAIN in_kwargs) \ {"files", "offset"}
        /\ \A k \in DOMAIN recv_kwargs :
              recv_kwargs[k] = IF k = "R" THEN Expected(in_kwargs[k], "/")
                               ELSE IF k = "i" THEN Expected(in_kwargs[k], ",")
                               ELSE in_kwargs[k]

C6_Witness ==
    /\ pc = "done"
    /\ fn = "module2"
    /\ invoked
    /\ Len(in_args) = 1
    /\ DOMAIN in_kwargs = {"R"}
    /\ in_kwargs["R"].t = "tuple"
    /\ recv_args = <<in_args[1], Str(S_54p \o <<"/">> \o S_54p)>>
    /\ recv_kwargs["R"] = Str(S_20p \o <<"/">> \o S_20p)

----------------------------------------------------------------------------
(* Properties of deprecate_parameter *)

DeprecatingFns == {"module3", "grdclip"}
DeprecationsOf(f) == IF f = "module3" THEN module3_deprecations ELSE grdclip_deprecations

\* the FutureWarnings of the call for the old name p
FutureCount(p) == Cardinality({j \in DOMAIN warnings : warnings[j] = FutureWarn(p)})
FutureTotal == Cardinality({j \in DOMAIN warnings : warnings[j].category = "FutureWarning"})

\* the decorators whose old name the call uses, and those of which it gives
\* both names
UsedOld == {i \in DOMAIN DeprecationsOf(fn) : DeprecationsOf(fn)[i][1] \in DOMAIN in_kwargs}
BothNames == {i \in UsedOld : DeprecationsOf(fn)[i][2] \in DOMAIN in_kwargs}

\* C7: a call that gives old names only where it does not give the new one
\* emits one FutureWarning for each old name it uses and none for the others,
\* and the wrapped function receives each value under the new name and
\* never the old name.
C7_OldNameRenamed ==
    /\ (fn \in DeprecatingFns /\ BothNames = {}) =>
          /\ \A i \in DOMAIN DeprecationsOf(fn) :
                FutureCount(DeprecationsOf(fn)[i][1]) = IF i \in UsedOld THEN 1 ELSE 0
          /\ FutureTotal = Cardinality(UsedOld)
    /\ (fn = "module3" /\ invoked) =>
          \A i \in DOMAIN DeprecationsOf(fn) :
             LET old == DeprecationsOf(fn)[i][1]
                 new == DeprecationsOf(fn)[i][2]
             IN /\ old \notin DOMAIN recv_kwargs
                /\ old \in DOMAIN in_kwargs => recv_kwargs[new] = in_kwargs[old]
                /\ new \in DOMAIN in_kwargs => recv_kwargs[new] = in_kwargs[new]
    /\ (fn = "grdclip" /\ invoked /\ "new" \in DOMAIN in_kwargs) =>
          /\ DOMAIN recv_kwargs \cap {"new", "replace"} = {}
          /\ recv_kwargs["Sr"] = Expected(in_kwargs["new"], "/")

C7_Witness ==
    /\ pc = "done"
    /\ fn = "module3"
    /\ outcome = "returned"
    /\ DOMAIN in_kwargs = {"infile", "sizes", "colors"}
    /\ DOMAIN recv_kwargs = {"data", "size", "color"}
    /\ Len(warnings) = 3

\* C8 as stated: a call that gives both the old and the new name of a
\* deprecated parameter raises GMTInvalidInput, emits no FutureWarning and
\* does not invoke the wrapped function.
C8_NoWarningAtAll ==
    (fn \in DeprecatingFns /\ BothNames # {}) =>
        /\ outcome = "GMTInvalidInput"
        /\ ~invoked
        /\ FutureTotal = 0

\* C8 (amended): a call that gives both the old and the new name of a
\* deprecated parameter raises GMTInvalidInput, emits no FutureWarning for
\* that parameter and does not invoke the wrapped function; with a single
\* deprecate_parameter decorator it emits no FutureWarning at all.
C8_BothNamesRaise ==
    (fn \in DeprecatingFns /\ BothNames # {}) =>
        /\ outcome = "GMTInvalidInput"
        /\ ~invoked
        /\ \A i \in BothNames : FutureCount(DeprecationsOf(fn)[i][1]) = 0
        /\ Len(DeprecationsOf(fn)) = 1 => FutureTotal = 0

C8_Witness ==
    /\ pc = "done"
    /\ fn = "module3"
    /\ DOMAIN in_kwargs = {"data", "size", "sizes"}
    /\ outcome = "GMTInvalidInput"
    /\ msg = "both"
    /\ warnings = <<>>

----------------------------------------------------------------------------
(* Properties of the grid wrappers *)

VirtualGridFns == {"binstats", "grdclip", "grdpaste"}
TempFileGridFns == {"grdcut", "grdfilter"}

\* the outgrid argument of the call of binstats, grdclip or grdpaste
OutgridGiven ==
    IF Len(in_args) >= (IF fn = "grdpaste" THEN 3 ELSE 2)
    THEN in_args[IF fn = "grdpaste" THEN 3 ELSE 2]
    ELSE IF "outgrid" \in DOMAIN in_kwargs THEN in_kwargs["outgrid"]
    ELSE PyNone

\* C9: binstats, grdclip and grdpaste return None exactly when outgrid is set
\* and a DataArray exactly when it is not, and the module's G option is the
\* name bound by virtualfile_out, whatever G the caller put in kwargs.
C9_ReturnFollowsOutgrid ==
    fn \in VirtualGridFns =>
        /\ (pc = "done" /\ outcome = "returned") =>
              /\ ret = "None" <=> OutgridGiven # PyNone
              /\ ret = "DataArray" <=> OutgridGiven = PyNone
        /\ \A i \in DOMAIN calls :
              /\ "G" \in DOMAIN calls[i].args
              /\ calls[i].args["G"] = IF OutgridGiven = PyNone THEN VFOutName ELSE OutgridGiven

C9_Witness ==
    /\ pc = "done"
    /\ fn = "binstats"
    /\ outcome = "returned"
    /\ in_args = <<S_in>>
    /\ DOMAIN in_kwargs = {"G"}
    /\ in_kwargs["G"] = S_out
    /\ ret = "DataArray"
    /\ calls[1].args["G"] = VFOutName

\* the outgrid argument of the call of grdcut or grdfilter, under either name
OutgridOption ==
    IF "outgrid" \in DOMAIN in_kwargs THEN in_kwargs["outgrid"]
    ELSE IF "G" \in DOMAIN in_kwargs THEN in_kwargs["G"]
    ELSE PyNone

\* C10: grdcut and grdfilter return a DataArray when outgrid is omitted or
\* None, the module's G being the temporary file, and None when outgrid is a
\* file name, the module's G being that name; every module call has a G.
C10_ReturnFollowsOutgrid ==
    fn \in TempFileGridFns =>
        /\ \A i \in DOMAIN calls : "G" \in DOMAIN calls[i].args
        /\ (pc = "done" /\ outcome = "returned") =>
              IF OutgridOption = PyNone
              THEN ret = "DataArray" /\ calls[1].args["G"] = TmpName
              ELSE OutgridOption.t = "str" => (ret = "None" /\ calls[1].args["G"] = OutgridOption)

----------------------------------------------------------------------------
(* Properties of grdpaste, coast and basemap *)

\* grid1 and grid2 of the call are one a file name and the other a DataArray
MixedKinds ==
    /\ Len(in_args) >= 2
    /\ {in_args[1].t, in_args[2].t} = {"str", "DataArray"}

\* C11: a call of grdpaste that its decorators accept and whose grid1 and
\* grid2 are one a file name and the other an xarray.DataArray ends with
\* GMTTypeError without having entered a session or a virtual file and
\* without a call of the module.
C11_MixedKindsRaise ==
    (fn = "grdpaste" /\ MixedKinds /\ DOMAIN in_kwargs \cap Removed = {}) =>
        /\ pc = "done"
        /\ outcome = "GMTTypeError"
        /\ log = <<>>
        /\ stack = <<>>
        /\ calls = <<>>

C11_Witness ==
    /\ pc = "done"
    /\ fn = "grdpaste"
    /\ in_args = <<S_in, DataArray>>
    /\ DOMAIN in_kwargs = {"outgrid"}
    /\ outcome = "GMTTypeError"
    /\ log = <<>>

\* the names, long and short, of the options of which coast and basemap
\* require one
OneOfThese(f) ==
    IF f = "coast"
    THEN {"lakes", "C", "land", "G", "water", "S", "rivers", "I", "borders", "N", "Q",
          "shorelines", "W"}
    ELSE {"frame", "B", "map_scale", "L", "rose", "Td", "compass", "Tm"}

SessionsEntered == Cardinality({i \in DOMAIN log : log[i] = Entered("session")})

\* C12: a call of coast or basemap that use_alias accepts and that gives
\* none of the required options ends with GMTInvalidInput without a session
\* or a module call; one that gives at least one of them enters a session
\* and calls the module exactly once.
C12_RequiredOneOf ==
    (fn \in {"coast", "basemap"} /\ BothForms = {} /\ DOMAIN in_kwargs \cap Removed = {}) =>
        IF DOMAIN in_kwargs \cap OneOfThese(fn) = {}
        THEN /\ pc = "done"
             /\ outcome = "GMTInvalidInput"
             /\ msg = "required"
             /\ log = <<>>
             /\ calls = <<>>
        ELSE /\ Len(calls) <= 1
             /\ pc = "done" =>
                   /\ Len(calls) = 1
                   /\ calls[1].module = fn
                   /\ SessionsEntered = 1
                   /\ outcome \in {"returned", "GMTCLibError"}

C12_Witness ==
    /\ pc = "done"
    /\ fn = "basemap"
    /\ DOMAIN in_kwargs = {"region", "J"}
    /\ outcome = "GMTInvalidInput"
    /\ msg = "required"

----------------------------------------------------------------------------
(* Properties of grdimage *)

\* C13: a call of grdimage that its decorators accept and whose grid is
\* neither a file name nor an xarray.DataArray (a numpy array) ends with
\* GMTTypeError and never calls the grdimage module.
C13_UnrecognizedGridRaises ==
    (/\ fn = "grdimage"
     /\ Len(in_args) = 1
     /\ in_args[1].t = "ndarray"
     /\ BothForms = {}
     /\ DOMAIN in_kwargs \cap Removed = {}) =>
        /\ calls = <<>>
        /\ pc = "done" => outcome = "GMTTypeError"

\* C14: a call of grdimage with a grid (a file name or a DataArray) that
\* gives img_out or A ends with GMTInvalidInput and never calls the grdimage
\* module.
C14_ImgOutRaises ==
    (/\ fn = "grdimage"
     /\ Len(in_args) = 1
     /\ in_args[1].t \in {"str", "DataArray"}
     /\ DOMAIN in_kwargs \cap {"img_out", "A"} # {}) =>
        /\ calls = <<>>
        /\ pc = "done" => outcome = "GMTInvalidInput"

----------------------------------------------------------------------------
(* Properties of plot and plot3d *)

PlotFns == {"plot", "plot3d"}

\* the call gives x and y (and z to plot3d) and no data
VectorInput ==
    /\ Len(in_args) = (IF fn = "plot3d" THEN 3 ELSE 2)
    /\ "data" \notin DOMAIN in_kwargs

\* the call gives as data a file name or a 2-D array, and no x, y or z
MatrixOrFileInput ==
    /\ in_args = <<>>
    /\ "data" \in DOMAIN in_kwargs
    /\ in_kwargs["data"].t \in {"str", "ndarray"}

\* the option of the call named short or long, as a sequence of at most one
OptionGiven(short, long) ==
    IF short \in DOMAIN in_kwargs THEN <<in_kwargs[short]>>
    ELSE IF long \in DOMAIN in_kwargs THEN <<in_kwargs[long]>>
    ELSE <<>>

ArraysOnly(vs) == SelectSeq(vs, LAMBDA v : v.t # "str")

VectorStyle ==
    /\ OptionGiven("S", "style") # <<>>
    /\ OptionGiven("S", "style")[1].s[1] \in {"v", "V"}

\* the columns C15 lists, for the arguments of the call
ColumnsClaimed ==
    in_args
      \o (IF VectorStyle /\ "direction" \in DOMAIN in_kwargs
          THEN in_kwargs["direction"].items ELSE <<>>)
      \o ArraysOnly(OptionGiven("G", "color"))
      \o OptionGiven("sizes", "sizes")
      \o ArraysOnly(OptionGiven("t", "transparency"))

\* C15: plot and plot3d end with GMTInvalidInput, before any session, when
\* the input is a matrix or a file and color is a non-string array or sizes
\* is given.  With x and y (and z) vectors, every module call has as input
\* columns the coordinates, the direction arrays (only for style v or V),
\* color, sizes and the transparency array, in this order; a non-string
\* color is not among the module options and the option t of a transparency
\* array is the empty string.
C15_ExtraArrays ==
    fn \in PlotFns =>
        /\ (MatrixOrFileInput
              /\ (ArraysOnly(OptionGiven("G", "color")) # <<>> \/ "sizes" \in DOMAIN in_kwargs)) =>
              /\ pc = "done"
              /\ outcome = "GMTInvalidInput"
              /\ log = <<>>
              /\ calls = <<>>
        /\ VectorInput =>
              /\ pc = "done" => Len(calls) = 1 \/ outcome = "GMTCLibError"
              /\ \A i \in DOMAIN calls :
                    /\ calls[i].infile = ColumnsClaimed
                    /\ ArraysOnly(OptionGiven("G", "color")) # <<>>
                          => "G" \notin DOMAIN calls[i].args
                    /\ ArraysOnly(OptionGiven("t", "transparency")) # <<>>
                          => calls[i].args["t"] = Str(<<>>)

C15_Witness ==
    /\ pc = "done"
    /\ fn = "plot"
    /\ outcome = "returned"
    /\ Len(calls) = 1
    /\ calls[1].infile
         = <<Arr("x"), Arr("y"), Arr("a"), Arr("l"), Arr("c"), Arr("s"), Arr("t")>>
    /\ DOMAIN calls[1].args = {"S", "t"}

----------------------------------------------------------------------------
(* Properties of _to_numpy *)

\* the numeric dtype C16 and C17 name for the dtype d of an input
NumericClaimed(d) ==
    CASE d.name \in {"Int8", "int8"} -> "int8"
      [] d.name \in {"Int16", "int16"} -> "int16"
      [] d.name \in {"Int32", "int32"} -> "int32"
      [] d.name \in {"Int64", "int64"} -> "int64"
      [] d.name \in {"UInt8", "uint8"} -> "uint8"
      [] d.name \in {"UInt16", "uint16"} -> "uint16"
      [] d.name \in {"UInt32", "uint32"} -> "uint32"
      [] d.name \in {"UInt64", "uint64"} -> "uint64"
      [] d.name = "float16" -> "float16"
      [] d.name \in {"Float32", "float32"} -> "float32"
      [] d.name \in {"Float64", "float64", "float"} -> "float64"
      [] d.name = "int" -> "int64"
      [] d.name \in {"complex", "complex128"} -> "complex128"
      [] OTHER -> d.name

IsString(d) == d.name \in {"str", "str_", "string", "large_string", "string_view"}
IsDatetime64(d) == d.name \in {"datetime", "datetime64", "date32", "date64", "timestamp"}
IsInteger(d) == NumericClaimed(d) \in IntTypes

\* C16: for an input without missing values _to_numpy returns a
\* C-contiguous ndarray with the elements of the input in their order, also
\* for a strided view; its dtype is the input's numeric dtype, str_ for
\* strings (datetime strings included) and datetime64 with the time unit of
\* the input's dtype for datetimes.
C16_ContiguousSameValues ==
    (fn = "to_numpy" /\ ~HasNA(in_args[1])) =>
        /\ result.t = "ndarray"
        /\ result.c_contiguous
        /\ result.values = View(in_args[1])
        /\ result.dtype =
              IF IsString(in_args[1].dtype) THEN "str_"
              ELSE IF IsDatetime64(in_args[1].dtype) THEN "datetime64"
              ELSE NumericClaimed(in_args[1].dtype)
        /\ (IsDatetime64(in_args[1].dtype) /\ in_args[1].dtype.family # "python") =>
              result.unit = IF in_args[1].dtype.unit = "day" THEN "D"
                            ELSE in_args[1].dtype.unit

C16_Witness ==
    /\ pc = "done"
    /\ fn = "to_numpy"
    /\ in_args[1].container = "ndarray"
    /\ in_args[1].dtype.name = "uint16"
    /\ in_args[1].step = 2
    /\ in_args[1].data = <<"1", "2", "2">>
    /\ result.values = <<"1", "2">>
    /\ result.c_contiguous

\* C17: for a pandas.Series or PyArrow array with a missing value
\* _to_numpy returns an array with NaN in the place of every missing element
\* and the other elements as they were, in their order; its dtype is float64
\* for every integer dtype and the input's own float dtype otherwise.
C17_MissingBecomesNaN ==
    (fn = "to_numpy" /\ HasNA(in_args[1])) =>
        /\ result.t = "ndarray"
        /\ Len(result.values) = Len(View(in_args[1]))
        /\ \A i \in DOMAIN result.values :
              result.values[i] = IF View(in_args[1])[i] = "NA" THEN "NaN"
                                 ELSE View(in_args[1])[i]
        /\ result.dtype = IF IsInteger(in_args[1].dtype) THEN "float64"
                          ELSE NumericClaimed(in_args[1].dtype)

C17_Witness ==
    /\ pc = "done"
    /\ fn = "to_numpy"
    /\ in_args[1].container = "Series"
    /\ in_args[1].dtype.name = "UInt8"
    /\ in_args[1].data = <<"1", "NA", "2">>
    /\ in_args[1].step = 1
    /\ result.values = <<"1", "NaN", "2">>
    /\ result.dtype = "float64"

----------------------------------------------------------------------------
(* Properties of the errors, sessions and resources of the wrappers *)

WrapperFns ==
    {"coast", "basemap", "grdimage", "plot", "plot3d", "binstats", "grdclip", "grdpaste",
     "grdcut", "grdfilter"}

\* the calls into the GMT library that returned a failure status
NativeFailures == Cardinality({i \in DOMAIN log : log[i].ev = "fail"})

\* the exceptions that the wrappers, their decorators and Python raise
\* without a failure status of the library
ArgumentErrors ==
    {"GMTInvalidInput", "GMTTypeError", "TypeError", "ValueError", "UnboundLocalError",
     "OSError"}

\* C18 as stated: a call of a module wrapper raises only when a call into
\* the native library returned a failure status, and raises whenever one did.
C18_OnlyNativeErrors ==
    (fn \in WrapperFns /\ pc = "done") =>
        (outcome # "returned" <=> NativeFailures > 0)

\* C18 (amended): a call of a module wrapper raises GMTCLibError exactly when
\* a call into the native library returned a failure status, and then returns
\* no result; every other exception is one the wrapper, its decorators or
\* Python raise for the arguments, with no failure status of the library.
C18_NativeFailuresRaise ==
    (fn \in WrapperFns /\ pc = "done") =>
        /\ outcome = "GMTCLibError" <=> NativeFailures > 0
        /\ NativeFailures > 0 => ret = "none"
        /\ outcome \notin {"returned", "GMTCLibError"} => outcome \in ArgumentErrors

C18_Witness ==
    /\ pc = "done"
    /\ fn = "grdpaste"
    /\ outcome = "GMTCLibError"
    /\ Len(calls) = 1
    /\ log[Len(log)] = Left("session")
    /\ \E i \in DOMAIN log : log[i] = Failed("call_module")

\* the resource res is open after the first i entries of the log
OpenAfter(res, i) ==
    \E j \in 1..i :
        /\ log[j] = Entered(res)
        /\ \A k \in j..i : log[k] # Left(res)

SessionsLeft == Cardinality({i \in DOMAIN log : log[i] = Left("session")})
SessionsHeld == Cardinality({i \in DOMAIN stack : stack[i] = "session"})
ModuleCalls == Cardinality({i \in DOMAIN log : log[i].ev = "call"})

\* what C19 says of every call besides the number of sessions: the module is
\* called at most once and only while the session is open, two sessions are
\* never held at once, and the session is closed when the call has ended
SessionDiscipline ==
    /\ ModuleCalls <= 1
    /\ Len(calls) = ModuleCalls
    /\ \A i \in DOMAIN log : log[i].ev = "call" => OpenAfter("session", i)
    /\ SessionsHeld <= 1
    /\ SessionsHeld = SessionsEntered - SessionsLeft
    /\ pc = "done" => (stack = <<>> /\ SessionsLeft = SessionsEntered)

\* C19 as stated: every call of a module wrapper opens exactly one session,
\* calls the module at most once and only while the session is open, never
\* holds two sessions and has closed the session when it returns or raises.
C19_ExactlyOneSession ==
    fn \in WrapperFns =>
        /\ SessionDiscipline
        /\ pc = "done" => SessionsEntered = 1

\* C19 (amended): every call of a module wrapper opens at most one session,
\* and exactly one unless it raises for its arguments before the session is
\* created; it calls the module at most once and only while the session is
\* open, never holds two sessions and has closed the session when it returns
\* or raises, also when GMTInvalidInput is raised inside the session.
C19_AtMostOneSession ==
    fn \in WrapperFns =>
        /\ SessionDiscipline
        /\ SessionsEntered <= 1
        /\ (pc = "done" /\ SessionsEntered = 0) =>
              /\ outcome \in {"GMTInvalidInput", "GMTTypeError", "TypeError", "ValueError"}
              /\ calls = <<>>
        /\ (pc = "done" /\ outcome \in {"returned", "GMTCLibError"}) => SessionsEntered = 1

C19_Witness ==
    /\ pc = "done"
    /\ fn = "grdcut"
    /\ in_args = <<NDArray>>
    /\ outcome = "GMTInvalidInput"
    /\ log = <<Entered("tmpfile"), Entered("session"), Left("session"), Left("tmpfile")>>
    /\ stack = <<>>

\* the resources of binstats, grdclip and grdpaste in the order C20 gives
ResourceOrder ==
    IF fn = "grdpaste" THEN <<"session", "vin", "vin2", "vout">>
    ELSE <<"session", "vin", "vout">>

Enters == SelectSeq(log, LAMBDA e : e.ev = "enter")
Exits == SelectSeq(log, LAMBDA e : e.ev = "exit")

\* C20: binstats, grdclip and grdpaste enter the session, the input virtual
\* file(s) and the output virtual file in this order and leave them in the
\* reverse order, all of them by the end of the call however it ends; the
\* module is called only while all are open, and the result is read from the
\* output virtual file after the module call while that file and the session
\* are still open; a call that returns has read its result.
C20_ResourceOrder ==
    fn \in VirtualGridFns =>
        /\ Len(Enters) <= Len(ResourceOrder)
        /\ \A i \in DOMAIN Enters : Enters[i].what = ResourceOrder[i]
        /\ \A i \in DOMAIN Exits : Exits[i].what = Enters[Len(Enters) - i + 1].what
        /\ \A i, j \in DOMAIN log : (log[i].ev = "exit" /\ log[j].ev = "enter") => j < i
        /\ pc = "done" => (Len(Exits) = Len(Enters) /\ stack = <<>>)
        /\ \A i \in DOMAIN log :
              /\ log[i].ev = "call" =>
                    \A r \in Range(ResourceOrder) : OpenAfter(r, i)
              /\ log[i].ev = "read" =>
                    /\ log[i].what = "vout"
                    /\ \E j \in 1..(i - 1) : log[j].ev = "call"
                    /\ OpenAfter("vout", i)
                    /\ OpenAfter("session", i)
        /\ (pc = "done" /\ outcome = "returned") => \E i \in DOMAIN log : log[i].ev = "read"

C20_Witness ==
    /\ pc = "done"
    /\ fn = "grdpaste"
    /\ outcome = "returned"
    /\ ret = "DataArray"
    /\ log = << Entered("session"), Entered("vin"), Entered("vin2"), Entered("vout"),
                Called("grdpaste"), ReadFrom("vout"),
                Left("vout"), Left("vin2"), Left("vin"), Left("session") >>

----------------

Init ==
    /\ pc = "idle"
    /\ fn = "none"
    /\ in_args = <<>>
    /\ in_kwargs = EmptyDict
    /\ outcome = "none"
    /\ msg = ""
    /\ ret = "none"
    /\ invoked = FALSE
    /\ recv_args = <<>>
    /\ recv_kwargs = EmptyDict
    /\ warnings = <<>>
    /\ stack = <<>>
    /\ pending = "none"
    /\ kw = EmptyDict
    /\ calls = <<>>
    /\ log = <<>>
    /\ result = NoResult

Next ==
    \/ my_module
    \/ module1
    \/ module2
    \/ module3
    \/ coast
    \/ coast_call_module
    \/ basemap
    \/ basemap_call_module
    \/ binstats
    \/ grdclip
    \/ grdpaste
    \/ VirtualfileIn2
    \/ grdcut
    \/ grdfilter
    \/ grdimage
    \/ grdimage_call_module
    \/ plot
    \/ plot3d
    \/ PlotFileContext
    \/ PlotCallModule
    \/ ToNumpy
    \/ SessionEnter
    \/ VirtualfileIn
    \/ VirtualfileOut
    \/ CallModule
    \/ ToRaster
    \/ TempFileEnter
    \/ FileContext
    \/ GridOpCallModule
    \/ ExitInner
    \/ GridOpResult
    \/ Unwind
    \/ Finish

Spec == Init /\ [][Next]_vars

====
